---- MODULE Spec2Model ----
(***************************************************************************)
(* Asset merge engine of TBCModLoader: the item shop (bcml ItemShop/Item)  *)
(* and the Ototo main character (bcml MainChara).                          *)
(*                                                                         *)
(* Item objects live on a heap and the shops hold references to them, as   *)
(* Python dicts do: set_item stores the caller's object itself, and        *)
(* shift_items / setattr mutate objects in place.                          *)
(***************************************************************************)
EXTENDS Integers, Sequences, FiniteSets, TLC

\* ---------------------------------------------------------------- bounds
\* Shop ids of the decoded game table range over 0..MaxId.
MaxId == 2
\* Integer attributes of an item range over 0..MaxVal.
MaxVal == 2
\* Number of calls made on the current shop in one run.
MaxCalls == 3
\* Number of mod snapshots deserialized in one run.
MaxLoads == 2
\* Number of positional edits (insert_item, remove_item) made between imports in one run.
MaxEdits == 1
\* A mod snapshot holds ids 0..n-1 with n <= MaxModLen.
MaxModLen == 2
\* Distinct model contents of the main character range over 0..MaxModel.
MaxModel == 3
\* Number of calls made on the current MainChara in one run.
MaxCharaCalls == 3
\* A list of an animation object holds at most MaxList records.
MaxList == 2
\* The records a caller constructs are numbered 0..MaxSeed.
MaxSeed == 1
\* KeyFrames and MamodelIntsInts are bound at rows 0..MaxCursor.
MaxCursor == 2
\* Data rows of a decoded item shop table that may repeat an id.
MaxRows == 3
\* Distinct contents of an audio file in mod archives.
MaxData == 2
\* import_audio calls on the current Audio.
MaxImports == 2
\* Rows of a version's download TSV, and distinct MD5 hashes.
MaxTsvRows == 2
MaxHash == 2
\* The parts of a version tried are 0 .. MaxPart and 9, 10 and 99.
MaxPart == 1
\* flip_x / flip_y calls on the Model.
MaxFlips == 2
\* Timer events of each of the two timers of a FrameClock.
MaxTicks == 3
\* Functions registered in each list of a FrameClock.
MaxFuncs == 2
\* rename calls on the disk.
MaxRenames == 2

\* ---------------------------------------------------------------- Item
\* A reference that refers to no object (Python None); heap references are 1..Len(heap).
None == 0

\* Item.__init__: the seven attributes an Item object has.
ItemFields ==
    {"shop_id", "gatya_item_id", "count", "price", "draw_item_value",
     "category_name", "rect_id"}

\* The attributes of an Item other than its identity.
NonIdFields == ItemFields \ {"shop_id"}

Item(shop_id, gatya_item_id, count, price, draw_item_value, category_name, rect_id) ==
    [shop_id |-> shop_id, gatya_item_id |-> gatya_item_id, count |-> count,
     price |-> price, draw_item_value |-> draw_item_value,
     category_name |-> category_name, rect_id |-> rect_id]

\* ---------------------------------------------------------------- dict
\* A Python dict[int, V] as the sequence of its entries in insertion order.
DictKeys(d) == {d[i].k : i \in DOMAIN d}

DictHas(d, k) == \E i \in DOMAIN d : d[i].k = k

\* d[k] for a key that is present.
DictAt(d, k) == d[CHOOSE i \in DOMAIN d : d[i].k = k].v

\* dict.get(k) on a dict of references: None when absent.
DictGet(d, k) == IF DictHas(d, k) THEN DictAt(d, k) ELSE None

\* d[k] = v: an existing key keeps its position, a new key is appended.
DictSet(d, k, v) ==
    IF DictHas(d, k)
    THEN [i \in DOMAIN d |-> IF d[i].k = k THEN [k |-> k, v |-> v] ELSE d[i]]
    ELSE Append(d, [k |-> k, v |-> v])

\* dict.pop(k) for a key that is present.
DictPop(d, k) == SelectSeq(d, LAMBDA e : e.k # k)

\* list(d.values())
DictValues(d) == [i \in DOMAIN d |-> d[i].v]

\* Iteration order of a Python set of small non-negative ints (hash(i) = i, no
\* collisions below the table size): ascending.
RECURSIVE SetOrder(_)
SetOrder(S) ==
    IF S = {} THEN <<>>
    ELSE LET m == CHOOSE x \in S : \A y \in S : x <= y
         IN <<m>> \o SetOrder(S \ {m})

\* ---------------------------------------------------------------- state
VARIABLES
    gd,        \* data rows of itemShopData.tsv in the game data (pristine)
    heap,      \* the Item objects: heap[r] is the object referenced by r
    items,     \* self.items of the current ItemShop (dict: id -> reference)
    other,     \* other.items of the mod ItemShop loaded last (dict: id -> reference)
    otherId,   \* how many mod ItemShops have been deserialized
    err,       \* the exception the last call raised, or "none"
    calls,     \* the calls made on the current shop, oldest first
    pre,       \* self.items and its records as they were before the last call
    chara,     \* MainChara objects: current, other, and the game data's model
    charaCalls,\* the import_main_chara calls made, oldest first
    anim,      \* the animation object under edit and the table it is bound to
    zip,       \* the last from_zip call: the asset type, the archive, the result
    audio,     \* the current Audio and the import_audio calls made on it
    server,    \* the server files on disk and the last ServerFileHandler.extract call
    version,   \* the GameVersion operands and the results of the last operation
    rig,       \* the Model under edit: its parts and the keyframe blocks of its anims
    clock,     \* the FrameClock: its counters, its timers and the calls it made
    fs         \* the file system and the last Path.rename call

shopVars == <<gd, heap, items, other, otherId, err, calls, pre>>
charaVars == <<chara, charaCalls>>
auxVars == <<audio, server, version, rig, clock, fs>>
vars == <<gd, heap, items, other, otherId, err, calls, pre, chara, charaCalls, anim, zip,
          audio, server, version, rig, clock, fs>>

\* A shop with its records, by value: entries [k, v, rec] in dict order.
Snapshot(d, h) == [i \in DOMAIN d |-> [k |-> d[i].k, v |-> d[i].v, rec |-> h[d[i].v]]]

SnapKeys(s) == {s[i].k : i \in DOMAIN s}

SnapRec(s, k) == s[CHOOSE i \in DOMAIN s : s[i].k = k].rec

SnapRef(s, k) == s[CHOOSE i \in DOMAIN s : s[i].k = k].v

\* The mapping id -> field values of a snapshot ("same ids, same field values").
SnapMap(s) == [k \in SnapKeys(s) |-> SnapRec(s, k)]

\* ---------------------------------------------------------------- ItemShop
\* The result of running code on the shop: the heap, self.items and the exception raised.
St(h, it, e) == [heap |-> h, items |-> it, err |-> e]

\* ItemShop.from_game_data: one Item per data row, keyed by column 0; a later
\* row with the same id replaces the earlier one.
RECURSIVE FromGameDataRows(_, _)
FromGameDataRows(rows, acc) ==
    IF rows = <<>> THEN acc
    ELSE FromGameDataRows(Tail(rows), DictSet(acc, Head(rows).shop_id, Head(rows)))

\* The items of the shop decoded from the game data, by value (dict: id -> Item).
FromGameData(rows) == FromGameDataRows(rows, <<>>)

\* The loop of to_game_data over tsv.lines[1:]: a row whose id self.items
\* lacks is skipped (KeyError, continue); the others take the item's values and
\* the id leaves remaning_items (del raises KeyError when it already left).
RECURSIVE ToGameDataRows(_, _, _, _)
ToGameDataRows(rows, it, h, remaning_items) ==
    IF rows = <<>> THEN [rows |-> <<>>, remaning_items |-> remaning_items, err |-> "none"]
    ELSE LET line == Head(rows)
             id == line.shop_id
         IN IF ~DictHas(it, id)
            THEN LET rest == ToGameDataRows(Tail(rows), it, h, remaning_items)
                 IN [rest EXCEPT !.rows = <<line>> \o @]
            ELSE IF ~DictHas(remaning_items, id)
                 THEN [rows |-> rows, remaning_items |-> remaning_items, err |-> "KeyError"]
                 ELSE LET item == h[DictAt(it, id)]
                          rest == ToGameDataRows(Tail(rows), it, h, DictPop(remaning_items, id))
                      IN [rest EXCEPT !.rows = <<[item EXCEPT !.shop_id = id]>> \o @]

\* ItemShop.to_game_data: the data rows of itemShopData.tsv afterwards; the rows
\* of remaning_items are added at the end. An exception leaves the file as it was.
ToGameData(st, rows) ==
    LET done == ToGameDataRows(rows, st.items, st.heap, st.items)
        added == [i \in DOMAIN done.remaning_items |-> st.heap[done.remaning_items[i].v]]
    IN IF done.err # "none" THEN [rows |-> rows, err |-> done.err]
       ELSE [rows |-> done.rows \o added, err |-> "none"]

\* ItemShop.get_item
GetItem(it, shop_index) == DictGet(it, shop_index)

\* ItemShop.set_item
SetItem(st, shop_index, item) ==
    St([st.heap EXCEPT ![item].shop_id = shop_index],
       DictSet(st.items, shop_index, item),
       st.err)

\* Mutant of ShiftValues: the comparison is strict, so the record at
\* start_index stays where it is.
RECURSIVE ShiftValuesStrict(_, _, _, _)
ShiftValuesStrict(h, vals, start_index, shift) ==
    IF vals = <<>> THEN h
    ELSE LET r == Head(vals)
             h2 == IF h[r].shop_id > start_index
                   THEN [h EXCEPT ![r].shop_id = @ + shift]
                   ELSE h
         IN ShiftValuesStrict(h2, Tail(vals), start_index, shift)

\* The loop of shift_items over self.items.values(): an object met twice is shifted twice.
RECURSIVE ShiftValues(_, _, _, _)
ShiftValues(h, vals, start_index, shift) ==
    IF vals = <<>> THEN h
    ELSE LET r == Head(vals)
             h2 == IF h[r].shop_id >= start_index
                   THEN [h EXCEPT ![r].shop_id = @ + shift]
                   ELSE h
         IN ShiftValues(h2, Tail(vals), start_index, shift)

\* {item.shop_id: item for item in self.items.values()}
RECURSIVE RebuildByShopId(_, _, _)
RebuildByShopId(h, vals, acc) ==
    IF vals = <<>> THEN acc
    ELSE RebuildByShopId(h, Tail(vals), DictSet(acc, h[Head(vals)].shop_id, Head(vals)))

\* ItemShop.shift_items
ShiftItems(st, start_index, shift) ==
    LET h2 == ShiftValues(st.heap, DictValues(st.items), start_index, shift)
    IN St(h2, RebuildByShopId(h2, DictValues(st.items), <<>>), st.err)

\* ItemShop.remove_item: dict.pop without a default raises KeyError.
RemoveItem(st, shop_index) ==
    IF ~DictHas(st.items, shop_index)
    THEN St(st.heap, st.items, "KeyError")
    ELSE ShiftItems(St(st.heap, DictPop(st.items, shop_index), st.err), shop_index + 1, -1)

\* Mutant of InsertItem: the item is stored before the others are shifted.
InsertItemSetFirst(st, shop_index, item) ==
    ShiftItems(SetItem(st, shop_index, item), shop_index, 1)

\* ItemShop.insert_item
InsertItem(st, shop_index, item) ==
    SetItem(ShiftItems(st, shop_index, 1), shop_index, item)

\* ItemShop.add_item
AddItem(st, item) == SetItem(st, st.heap[item].shop_id, item)

\* The attrs list of import_item_shop, in order.
MergeAttrs ==
    <<"gatya_item_id", "count", "price", "draw_item_value", "category_name",
      "imgcut_id", "cut">>

\* The loop over attrs for one id present in other and in the game data.
\* getattr of a name an Item does not have raises AttributeError, and so does
\* setattr on None (the id is absent from self).
RECURSIVE MergeItem(_, _, _, _, _)
MergeItem(st, attrs, other_item, gd_item, current_item) ==
    IF attrs = <<>> THEN st
    ELSE LET attr == Head(attrs) IN
         IF attr \notin ItemFields
         THEN St(st.heap, st.items, "AttributeError")
         ELSE LET other_value == st.heap[other_item][attr]
                  gd_value == gd_item[attr]
              IN IF other_value # gd_value
                 THEN IF current_item = None
                      THEN St(st.heap, st.items, "AttributeError")
                      ELSE MergeItem(
                               St([st.heap EXCEPT ![current_item][attr] = other_value],
                                  st.items, st.err),
                               Tail(attrs), other_item, gd_item, current_item)
                 ELSE MergeItem(st, Tail(attrs), other_item, gd_item, current_item)

\* Mutant of ImportId: a record absent from the game data is inserted at its
\* id, shifting the records after it, instead of being stored under it.
ImportIdInserting(st, id, oth, gd_item_shop) ==
    LET other_item == GetItem(oth, id) IN
    IF other_item = None THEN st
    ELSE IF DictHas(gd_item_shop, id)
         THEN MergeItem(st, MergeAttrs, other_item, DictAt(gd_item_shop, id),
                        GetItem(st.items, id))
         ELSE InsertItem(st, id, other_item)

\* The body of the loop over all_keys for one id.
ImportId(st, id, oth, gd_item_shop) ==
    LET other_item == GetItem(oth, id) IN
    IF other_item = None THEN st
    ELSE IF DictHas(gd_item_shop, id)
         THEN MergeItem(st, MergeAttrs, other_item, DictAt(gd_item_shop, id),
                        GetItem(st.items, id))
         ELSE SetItem(st, id, other_item)

\* The loop over all_keys; an exception ends it.
RECURSIVE ImportIds(_, _, _, _)
ImportIds(st, ids, oth, gd_item_shop) ==
    IF ids = <<>> \/ st.err # "none" THEN st
    ELSE ImportIds(ImportId(st, Head(ids), oth, gd_item_shop), Tail(ids), oth, gd_item_shop)

\* ItemShop.import_item_shop
ImportItemShop(st, oth, rows) ==
    LET gd_item_shop == FromGameData(rows)
        all_keys == DictKeys(st.items) \cup DictKeys(oth) \cup DictKeys(gd_item_shop)
    IN ImportIds(st, SetOrder(all_keys), oth, gd_item_shop)

\* ---------------------------------------------------------------- mod archive
\* zip.get_file(path): the data of the file, or None when the archive has no
\* file at that path.
File(data) == [found |-> TRUE, data |-> data]

NoFile == [found |-> FALSE]

\* What a from_zip call hands back: an object, None, or an exception.
Returned(obj) == [none |-> FALSE, obj |-> obj, err |-> "none"]

ReturnedNone == [none |-> TRUE, err |-> "none"]

Raised(e) == [none |-> FALSE, err |-> e]

\* ItemShop.create_empty: ItemShop({}, ...), by its items.
ItemShopCreateEmpty == <<>>

\* ItemShop.from_zip: the items of the shop returned, one record per entry of
\* the json's "items".
ItemShopFromZip(json_data) ==
    IF ~json_data.found THEN Returned(ItemShopCreateEmpty)
    ELSE Returned(json_data.data)

\* The content of the Model of MainChara.create_empty().
EmptyModel == 0

\* MainChara.from_zip: the MainChara returned, by the content of its model.
MainCharaFromZip(json_data) ==
    IF ~json_data.found THEN Returned(EmptyModel)
    ELSE Returned(json_data.data)

\* AudioFile.from_zip: ValueError when the archive has no audio/<file_name>.
AudioFile(data, file_name) == [data |-> data, file_name |-> file_name]

\* The dict comprehension of Audio.from_zip over json_data["audio_files"].
RECURSIVE AudioFilesFromZip(_, _, _)
AudioFilesFromZip(files, file_names, acc) ==
    IF file_names = <<>> THEN Returned(acc)
    ELSE LET file_name == Head(file_names) IN
         IF file_name \notin DOMAIN files THEN Raised("ValueError")
         ELSE AudioFilesFromZip(files, Tail(file_names),
                                DictSet(acc, file_name, AudioFile(files[file_name], file_name)))

\* Audio.create_empty: Audio({}), by its audio_files.
AudioCreateEmpty == <<>>

\* Audio.from_zip: the audio_files of the Audio returned.
AudioFromZip(json_data, files) ==
    IF ~json_data.found THEN Returned(AudioCreateEmpty)
    ELSE AudioFilesFromZip(files, json_data.data, <<>>)

\* dict.update(o): a key d holds keeps its place and takes o's value, a new key
\* goes to the end.
RECURSIVE DictUpdate(_, _)
DictUpdate(d, o) ==
    IF o = <<>> THEN d
    ELSE DictUpdate(DictSet(d, Head(o).k, Head(o).v), Tail(o))

\* Mutant of ImportAudio: a file name self already holds keeps self's file.
ImportAudioKeep(audio_files, other_audio) ==
    [audio_files |-> DictUpdate(other_audio, audio_files), other |-> other_audio]

\* Audio.import_audio: self.audio_files and other.audio_files afterwards.
ImportAudio(audio_files, other_audio) ==
    [audio_files |-> DictUpdate(audio_files, other_audio), other |-> other_audio]

\* The outcome of a from_zip call, with whether the archive held the json.
ZipCall(asset, json_data, ret) == [asset |-> asset, has_json |-> json_data.found, ret |-> ret]

NoZip == [asset |-> "none", has_json |-> FALSE, ret |-> ReturnedNone]

\* ---------------------------------------------------------------- inputs
\* An unmodified record of the game: every data row of the shipped table.
BaseItem(id) == Item(id, 0, 0, 0, FALSE, "Battle Items", 0)

\* Category names a mod may give an item, by edit number.
CategoryNames == <<"XP", "Catfood", "Cat Tickets", "Other">>

\* One edited attribute: <<attribute, n>>, n-th non-pristine value of that attribute.
Edits ==
    {e \in NonIdFields \X (1 .. MaxVal) :
        /\ e[1] = "draw_item_value" => e[2] = 1
        /\ e[1] = "category_name" => e[2] <= Len(CategoryNames)}

EditValue(e) ==
    IF e[1] = "draw_item_value" THEN TRUE
    ELSE IF e[1] = "category_name" THEN CategoryNames[e[2]]
    ELSE e[2]

Edited(item, e) == [item EXCEPT ![e[1]] = EditValue(e)]

\* The data rows of a game table with n items, ids 0..n-1.
BaseRows(n) == [i \in 1 .. n |-> BaseItem(i - 1)]

\* The serialized shops a mod archive may hold: ids 0..n-1, at most one record
\* edited in one attribute relative to the unmodified record.
ModChoices ==
    UNION {
        {BaseRows(n)} \cup
        {[BaseRows(n) EXCEPT ![i] = Edited(@, e)] : i \in 1 .. n, e \in Edits}
        : n \in 0 .. MaxModLen}

\* The audio files a mod archive may hold, and the lists its audio.json may give.
AudioNames == {"snd000.ogg", "snd001.ogg"}

\* The data of an audio file, by the mod it comes from; 0 is the game's own.
AudioArchives == UNION {[S -> 1 .. MaxData] : S \in SUBSET AudioNames}

\* The audio_files the current Audio may start with.
AudioChoices ==
    {<<>>} \cup {<<[k |-> a, v |-> AudioFile(0, a)]>> : a \in AudioNames}

AudioLists ==
    {<<>>} \cup {<<a>> : a \in AudioNames}
           \cup {l \in AudioNames \X AudioNames : l[1] # l[2]}

\* The data rows a decoded itemShopData.tsv may hold for ids 0 and 1: the
\* unmodified row, or one with another count or price.
RowChoices ==
    {BaseItem(id) : id \in 0 .. 1} \cup
    {Edited(BaseItem(id), e) : id \in 0 .. 1,
                               e \in {x \in Edits : x[1] \in {"count", "price"}}}

\* The decoded tables: any rows in any order, so an id may be repeated.
DecodedTables == UNION {[1 .. n -> RowChoices] : n \in 0 .. MaxRows}

\* The Item a caller constructs to store in the shop.
NewItem(shop_id) == Item(shop_id, MaxVal, 1, MaxVal, TRUE, "XP", MaxVal)

\* ---------------------------------------------------------------- Cell, Table
\* A Cell is untyped text: a sequence of characters.
DigitChars == <<"0", "1", "2", "3", "4", "5", "6", "7", "8", "9">>

\* The decimal digits of a natural number, most significant first.
RECURSIVE NatToText(_)
NatToText(n) ==
    IF n < 10 THEN <<DigitChars[n + 1]>>
    ELSE NatToText(n \div 10) \o <<DigitChars[(n % 10) + 1]>>

\* The setter of a Cell stringifies an integer.
IntToText(n) == IF n < 0 THEN <<"-">> \o NatToText(0 - n) ELSE NatToText(n)

IsDigitChar(c) == \E d \in DOMAIN DigitChars : DigitChars[d] = c

DigitValue(c) == (CHOOSE d \in DOMAIN DigitChars : DigitChars[d] = c) - 1

RECURSIVE DigitsToNat(_, _)
DigitsToNat(t, acc) ==
    IF t = <<>> THEN acc ELSE DigitsToNat(Tail(t), acc * 10 + DigitValue(Head(t)))

\* Text that to_int accepts: an optional sign and at least one digit.
IsIntText(t) ==
    LET digits == IF t # <<>> /\ Head(t) = "-" THEN Tail(t) ELSE t
    IN digits # <<>> /\ \A i \in DOMAIN digits : IsDigitChar(digits[i])

\* Cell.to_int of well-formed text.
TextToInt(t) ==
    IF Head(t) = "-" THEN 0 - DigitsToNat(Tail(t), 0) ELSE DigitsToNat(t, 0)

\* A Table: rows of cells, and the cursor (csv.index) its schema fields are bound at.
CSV(lines, index) == [lines |-> lines, index |-> index]

\* tbcml.CSV(): a fresh empty table.
EmptyCSV == CSV(<<>>, 0)

\* One call of Table.set(row, col, text).
CellSet(row, col, text) == [row |-> row, col |-> col, text |-> text]

Max(S) == CHOOSE x \in S : \A y \in S : y <= x

\* The table after the calls of Table.set in sets, in order: rows and cells
\* are created (empty) when absent, and the last value set to a cell stays.
TableSetAll(lines, sets) ==
    LET OldLen(r) == IF r <= Len(lines) THEN Len(lines[r]) ELSE 0
        Hits(r, c) == {i \in DOMAIN sets : sets[i].row = r - 1 /\ sets[i].col = c - 1}
        nrows == Max({Len(lines)} \cup {sets[i].row + 1 : i \in DOMAIN sets})
        ncols(r) == Max({OldLen(r)} \cup
                        {sets[i].col + 1 : i \in {j \in DOMAIN sets : sets[j].row = r - 1}})
    IN [r \in 1 .. nrows |->
           [c \in 1 .. ncols(r) |->
               IF Hits(r, c) # {} THEN sets[Max(Hits(r, c))].text
               ELSE IF c <= OldLen(r) THEN lines[r][c]
               ELSE <<>>]]

\* Table.get(row, col) is defined within the table's extent only.
TableHas(lines, row, col) ==
    /\ row >= 0 /\ row < Len(lines)
    /\ col >= 0 /\ col < Len(lines[row + 1])

TableGet(lines, row, col) == lines[row + 1][col + 1]

\* ---------------------------------------------------------------- SchemaField
\* A SchemaField: cell type, column, and the row it is bound at: an absolute
\* row (row_index, a sequence of at most one number) or the cursor plus row_offset.
CSVField(type, col_index, row_index, row_offset) ==
    [type |-> type, col_index |-> col_index, row_index |-> row_index,
     row_offset |-> row_offset]

IntCSVField(col_index) == CSVField("int", col_index, <<>>, 0)

StringCSVField(col_index) == CSVField("str", col_index, <<>>, 0)

IntCSVFieldAt(col_index, row_index) == CSVField("int", col_index, <<row_index>>, 0)

StringCSVFieldAt(col_index, row_index) == CSVField("str", col_index, <<row_index>>, 0)

IntCSVFieldOffset(col_index, row_offset) == CSVField("int", col_index, <<>>, row_offset)

\* The row a field is bound at for the cursor csv.index = index.
FieldRow(f, index) == IF f.row_index # <<>> THEN f.row_index[1] ELSE index + f.row_offset

\* Modification.apply_csv_fields with csv.index = index: every field of the
\* schema (pairs <<attribute, field>>) is set in its cell, integers
\* stringified. The result is the calls of Table.set made, in order.
RECURSIVE ApplyCsvFields(_, _, _)
ApplyCsvFields(obj, schema, index) ==
    IF schema = <<>> THEN <<>>
    ELSE LET name == Head(schema)[1]
             f == Head(schema)[2]
             text == IF f.type = "int" THEN IntToText(obj[name]) ELSE obj[name]
         IN <<CellSet(FieldRow(f, index), f.col_index, text)>>
                \o ApplyCsvFields(obj, Tail(schema), index)

\* The result of reading: the object and the condition raised, or "none".
Rd(obj, e) == [obj |-> obj, err |-> e]

\* An object is the record of its attributes that are not None.
\* setattr(obj, name, value)
SetAttr(obj, name, value) == (name :> value) @@ obj

\* self.total_* or 0
OrZero(obj, name) == IF name \in DOMAIN obj THEN obj[name] ELSE 0

\* An object all of whose attributes are None.
NoAttrs == [n \in {} |-> None]

\* Modification.read_csv_fields: every field of the schema is read from its
\* cell; a missing row or cell, or malformed integer text, fails.
RECURSIVE ReadCsvFields(_, _, _)
ReadCsvFields(rd, schema, csv) ==
    IF schema = <<>> \/ rd.err # "none" THEN rd
    ELSE LET name == Head(schema)[1]
             f == Head(schema)[2]
             row == FieldRow(f, csv.index)
         IN IF ~TableHas(csv.lines, row, f.col_index)
            THEN Rd(rd.obj, "MalformedAsset")
            ELSE LET text == TableGet(csv.lines, row, f.col_index) IN
                 IF f.type = "int" /\ ~IsIntText(text)
                 THEN Rd(rd.obj, "MalformedAsset")
                 ELSE ReadCsvFields(
                          Rd(SetAttr(rd.obj, name,
                                     IF f.type = "int" THEN TextToInt(text) ELSE text),
                             "none"),
                          Tail(schema), csv)

\* ---------------------------------------------------------------- maanim
\* KeyFrame.__post_init__
KeyFrameSchema ==
    << <<"frame", IntCSVField(0)>>, <<"change_in_value", IntCSVField(1)>>,
       <<"ease_mode", IntCSVField(2)>>, <<"ease_power", IntCSVField(3)>> >>

\* KeyFrame.apply_csv
KeyFrameApplyCsv(keyframe, index) == ApplyCsvFields(keyframe, KeyFrameSchema, index)

\* KeyFrame().read_csv
KeyFrameReadCsv(index, csv) ==
    ReadCsvFields(Rd(NoAttrs, "none"), KeyFrameSchema, CSV(csv.lines, index))

\* KeyFrames.__post_init__
KeyFramesSchema ==
    << <<"model_id", IntCSVField(0)>>, <<"modification_type", IntCSVField(1)>>,
       <<"loop", IntCSVField(2)>>, <<"min_value", IntCSVField(3)>>,
       <<"max_value", IntCSVField(4)>>, <<"name", StringCSVField(5)>>,
       <<"total_keyframes", IntCSVFieldOffset(0, 1)>> >>

\* The result of apply_csv: the object, the calls of Table.set it made on csv,
\* and the returned cursor.
Ap(obj, sets, ret) == [obj |-> obj, sets |-> sets, ret |-> ret]

\* The loop of KeyFrames.apply_csv over enumerate(self.keyframes), from i on.
RECURSIVE KeyFramesApplyLoop(_, _, _)
KeyFramesApplyLoop(keyframes, i, index) ==
    IF i >= Len(keyframes) THEN <<>>
    ELSE KeyFrameApplyCsv(keyframes[i + 1], index + i + 2)
            \o KeyFramesApplyLoop(keyframes, i + 1, index)

\* Mutant of KeyFramesApplyCsv: a part without keyframes writes nothing.
KeyFramesApplyCsvSkipEmpty(self, index) ==
    LET self2 == SetAttr(self, "total_keyframes", Len(self.keyframes))
    IN IF self2.keyframes = <<>> THEN Ap(self2, <<>>, index)
       ELSE Ap(self2,
               ApplyCsvFields(self2, KeyFramesSchema, index)
                 \o KeyFramesApplyLoop(self2.keyframes, 0, index),
               index + 2 + Len(self2.keyframes))

\* Mutant of KeyFramesApplyCsv: the count written is the one the object held.
KeyFramesApplyCsvStale(self, index) ==
    LET self2 == SetAttr(self, "total_keyframes", OrZero(self, "total_keyframes"))
    IN Ap(self2,
          ApplyCsvFields(self2, KeyFramesSchema, index)
            \o KeyFramesApplyLoop(self2.keyframes, 0, index),
          index + 2 + Len(self2.keyframes))

\* KeyFrames.apply_csv
KeyFramesApplyCsv(self, index) ==
    LET self2 == SetAttr(self, "total_keyframes", Len(self.keyframes))
    IN Ap(self2,
          ApplyCsvFields(self2, KeyFramesSchema, index)
            \o KeyFramesApplyLoop(self2.keyframes, 0, index),
          index + 2 + Len(self2.keyframes))

\* The result of a read_csv that returns a cursor.
RdRet(obj, e, ret) == [obj |-> obj, err |-> e, ret |-> ret]

\* Mutant of KeyFramesReadLoop: the keyframes are read from the row after the
\* header on (index + i + 1).
RECURSIVE KeyFramesReadLoopRow1(_, _, _, _, _)
KeyFramesReadLoopRow1(rd, i, n, index, csv) ==
    IF i >= n \/ rd.err # "none" THEN rd
    ELSE LET keyframe == KeyFrameReadCsv(index + i + 1, csv) IN
         IF keyframe.err # "none" THEN Rd(rd.obj, keyframe.err)
         ELSE KeyFramesReadLoopRow1(
                  Rd([rd.obj EXCEPT !.keyframes = Append(@, keyframe.obj)], "none"),
                  i + 1, n, index, csv)

\* The loop of KeyFrames.read_csv over range(total_keyframes), from i on.
RECURSIVE KeyFramesReadLoop(_, _, _, _, _)
KeyFramesReadLoop(rd, i, n, index, csv) ==
    IF i >= n \/ rd.err # "none" THEN rd
    ELSE LET keyframe == KeyFrameReadCsv(index + i + 2, csv) IN
         IF keyframe.err # "none" THEN Rd(rd.obj, keyframe.err)
         ELSE KeyFramesReadLoop(
                  Rd([rd.obj EXCEPT !.keyframes = Append(@, keyframe.obj)], "none"),
                  i + 1, n, index, csv)

\* KeyFrames().read_csv
KeyFramesReadCsv(index, csv) ==
    LET fields == ReadCsvFields(Rd([keyframes |-> <<>>], "none"), KeyFramesSchema,
                                CSV(csv.lines, index))
    IN IF fields.err # "none" THEN RdRet(fields.obj, fields.err, index)
       ELSE LET rd == KeyFramesReadLoop(Rd([fields.obj EXCEPT !.keyframes = <<>>], "none"),
                                        0, OrZero(fields.obj, "total_keyframes"), index, csv)
            IN RdRet(rd.obj, rd.err, index + 2 + Len(rd.obj.keyframes))

\* MaanimMetadata.__post_init__
MaanimMetadataSchema ==
    << <<"head_name", StringCSVFieldAt(0, 0)>>, <<"version_code", StringCSVFieldAt(0, 1)>>,
       <<"total_parts", IntCSVFieldAt(0, 2)>> >>

\* The loop of UnitAnim.apply_csv over self.parts, from part j on: the parts
\* as apply_csv leaves them, the calls of Table.set, and the last cursor.
RECURSIVE UnitAnimApplyLoop(_, _, _)
UnitAnimApplyLoop(parts, j, index) ==
    IF j > Len(parts) THEN Ap(<<>>, <<>>, index)
    ELSE LET ap == KeyFramesApplyCsv(parts[j], index)
             rest == UnitAnimApplyLoop(parts, j + 1, ap.ret)
         IN Ap(<<ap.obj>> \o rest.obj, ap.sets \o rest.sets, rest.ret)

\* Mutant of UnitAnimApplyCsv: the first part is placed at row 2.
UnitAnimApplyCsvRow2(self) ==
    LET metadata == SetAttr(self.metadata, "total_parts", Len(self.parts))
        ap == UnitAnimApplyLoop(self.parts, 1, 2)
    IN Ap([self EXCEPT !.metadata = metadata, !.parts = ap.obj],
          ApplyCsvFields(metadata, MaanimMetadataSchema, 0) \o ap.sets, ap.ret)

\* UnitAnim.apply_csv (the metadata fields are bound at absolute rows)
UnitAnimApplyCsv(self) ==
    LET metadata == SetAttr(self.metadata, "total_parts", Len(self.parts))
        ap == UnitAnimApplyLoop(self.parts, 1, 3)
    IN Ap([self EXCEPT !.metadata = metadata, !.parts = ap.obj],
          ApplyCsvFields(metadata, MaanimMetadataSchema, 0) \o ap.sets, ap.ret)

\* The loop of UnitAnim.read_csv over range(total_parts), from j on.
RECURSIVE UnitAnimReadLoop(_, _, _, _)
UnitAnimReadLoop(rd, j, n, csv) ==
    IF j >= n \/ rd.err # "none" THEN rd
    ELSE LET part == KeyFramesReadCsv(rd.ret, csv) IN
         IF part.err # "none" THEN RdRet(rd.obj, part.err, rd.ret)
         ELSE UnitAnimReadLoop(
                  RdRet([rd.obj EXCEPT !.parts = Append(@, part.obj)], "none", part.ret),
                  j + 1, n, csv)

\* UnitAnim(name).read_csv: self is the object as constructed.
UnitAnimReadCsv(self, csv) ==
    LET metadata == ReadCsvFields(Rd(self.metadata, "none"), MaanimMetadataSchema, csv)
        self2 == [self EXCEPT !.metadata = metadata.obj]
    IN IF metadata.err # "none" THEN RdRet(self2, metadata.err, 3)
       ELSE UnitAnimReadLoop(RdRet([self2 EXCEPT !.parts = <<>>], "none", 3),
                             0, OrZero(metadata.obj, "total_parts"), csv)

\* ---------------------------------------------------------------- mamodel
\* MamodelMetaData.__post_init__
MamodelMetaDataSchema ==
    << <<"head_name", StringCSVFieldAt(0, 0)>>, <<"version_code", StringCSVFieldAt(0, 1)>>,
       <<"total_parts", IntCSVFieldAt(0, 2)>> >>

\* ModelPart.__post_init__
ModelPartSchema ==
    << <<"parent_id", IntCSVField(0)>>, <<"unit_id", IntCSVField(1)>>,
       <<"cut_id", IntCSVField(2)>>, <<"z_depth", IntCSVField(3)>>,
       <<"x", IntCSVField(4)>>, <<"y", IntCSVField(5)>>,
       <<"pivot_x", IntCSVField(6)>>, <<"pivot_y", IntCSVField(7)>>,
       <<"scale_x", IntCSVField(8)>>, <<"scale_y", IntCSVField(9)>>,
       <<"rotation", IntCSVField(10)>>, <<"alpha", IntCSVField(11)>>,
       <<"glow", IntCSVField(12)>>, <<"name", StringCSVField(13)>> >>

\* MamodelUnits.__post_init__
MamodelUnitsSchema ==
    << <<"scale_unit", IntCSVField(0)>>, <<"angle_unit", IntCSVField(1)>>,
       <<"alpha_unit", IntCSVField(2)>> >>

\* MamodelInts.__post_init__
MamodelIntsSchema ==
    << <<"int_0", IntCSVField(0)>>, <<"int_1", IntCSVField(1)>>,
       <<"int_2", IntCSVField(2)>>, <<"int_3", IntCSVField(3)>>,
       <<"int_4", IntCSVField(4)>>, <<"int_5", IntCSVField(5)>>,
       <<"comment", StringCSVField(6)>> >>

\* MamodelIntsInts.__post_init__
MamodelIntsIntsSchema == << <<"total_ints", IntCSVField(0)>> >>

\* apply_csv(index, csv) of a flat record: Rect, ModelPart, MamodelUnits, MamodelInts.
FlatApplyCsv(obj, schema, index) == ApplyCsvFields(obj, schema, index)

\* read_csv(index, csv) of a new flat record.
FlatReadCsv(schema, index, csv) ==
    ReadCsvFields(Rd(NoAttrs, "none"), schema, CSV(csv.lines, index))

\* A loop "for i, x in enumerate(list): x.apply_csv(base + i, csv)", from i on.
RECURSIVE ListApplyLoop(_, _, _, _)
ListApplyLoop(list, schema, i, base) ==
    IF i >= Len(list) THEN <<>>
    ELSE FlatApplyCsv(list[i + 1], schema, base + i)
            \o ListApplyLoop(list, schema, i + 1, base)

\* A loop "for i in range(n): x = X(); x.read_csv(base + i, csv); list.append(x)".
\* rd.obj is the list read so far.
RECURSIVE ListReadLoop(_, _, _, _, _, _)
ListReadLoop(rd, schema, i, n, base, csv) ==
    IF i >= n \/ rd.err # "none" THEN rd
    ELSE LET x == FlatReadCsv(schema, base + i, csv) IN
         IF x.err # "none" THEN Rd(rd.obj, x.err)
         ELSE ListReadLoop(Rd(Append(rd.obj, x.obj), "none"), schema, i + 1, n, base, csv)

\* MamodelIntsInts.apply_csv (returns nothing: ret is the index passed)
MamodelIntsIntsApplyCsv(self, index) ==
    LET self2 == SetAttr(self, "total_ints", Len(self.ints))
    IN Ap(self2,
          ApplyCsvFields(self2, MamodelIntsIntsSchema, index)
            \o ListApplyLoop(self2.ints, MamodelIntsSchema, 0, index + 1),
          index)

\* MamodelIntsInts.read_csv: self.ints is emptied before the fields are read.
MamodelIntsIntsReadCsv(self, index, csv) ==
    LET fields == ReadCsvFields(Rd([self EXCEPT !.ints = <<>>], "none"),
                                MamodelIntsIntsSchema, CSV(csv.lines, index))
    IN IF fields.err # "none" THEN fields
       ELSE LET list == ListReadLoop(Rd(<<>>, "none"), MamodelIntsSchema, 0,
                                     OrZero(fields.obj, "total_ints"), index + 1, csv)
            IN Rd([fields.obj EXCEPT !.ints = list.obj], list.err)

\* Mamodel.apply_csv (returns nothing)
MamodelApplyCsv(self) ==
    LET metadata == SetAttr(self.metadata, "total_parts", Len(self.parts))
        ints == MamodelIntsIntsApplyCsv(self.ints, Len(self.parts) + 4)
    IN Ap([self EXCEPT !.metadata = metadata, !.ints = ints.obj],
          ApplyCsvFields(metadata, MamodelMetaDataSchema, 0)
            \o ListApplyLoop(self.parts, ModelPartSchema, 0, 3)
            \o FlatApplyCsv(self.units, MamodelUnitsSchema, Len(self.parts) + 3)
            \o ints.sets,
          0)

\* Mamodel().read_csv: self is the object as constructed.
MamodelReadCsv(self, csv) ==
    LET metadata == ReadCsvFields(Rd(self.metadata, "none"), MamodelMetaDataSchema, csv)
        self2 == [self EXCEPT !.metadata = metadata.obj] IN
    IF metadata.err # "none" THEN Rd(self2, metadata.err)
    ELSE LET parts == ListReadLoop(Rd(<<>>, "none"), ModelPartSchema, 0,
                                   OrZero(metadata.obj, "total_parts"), 3, csv)
             self3 == [self2 EXCEPT !.parts = parts.obj] IN
         IF parts.err # "none" THEN Rd(self3, parts.err)
         ELSE LET units == ReadCsvFields(Rd(self3.units, "none"), MamodelUnitsSchema,
                                         CSV(csv.lines, Len(self3.parts) + 3))
                  self4 == [self3 EXCEPT !.units = units.obj] IN
              IF units.err # "none" THEN Rd(self4, units.err)
              ELSE LET ints == MamodelIntsIntsReadCsv(self4.ints, Len(self4.parts) + 4, csv)
                   IN Rd([self4 EXCEPT !.ints = ints.obj], ints.err)

\* ---------------------------------------------------------------- imgcut
\* Rect.__post_init__
RectSchema ==
    << <<"x", IntCSVField(0)>>, <<"y", IntCSVField(1)>>, <<"w", IntCSVField(2)>>,
       <<"h", IntCSVField(3)>>, <<"name", StringCSVField(4)>> >>

\* TextureMetadata.__post_init__
TextureMetadataSchema ==
    << <<"head_name", StringCSVFieldAt(0, 0)>>, <<"version_code", StringCSVFieldAt(0, 1)>>,
       <<"img_name", StringCSVFieldAt(0, 2)>>, <<"total_rects", IntCSVFieldAt(0, 3)>> >>

\* Texture.apply_csv, as far as the table goes (apply_img stores the image
\* in the game data and touches neither the table nor the object).
TextureApplyCsv(self) ==
    LET metadata == SetAttr(self.metadata, "total_rects", Len(self.rects))
    IN Ap([self EXCEPT !.metadata = metadata],
          ApplyCsvFields(metadata, TextureMetadataSchema, 0)
            \o ListApplyLoop(self.rects, RectSchema, 0, 4),
          0)

\* Texture().read_csv(csv): self is the object as constructed.
TextureReadCsv(self, csv) ==
    LET self2 == [self EXCEPT !.rects = <<>>]
        metadata == ReadCsvFields(Rd(self2.metadata, "none"), TextureMetadataSchema, csv)
        self3 == [self2 EXCEPT !.metadata = metadata.obj] IN
    IF metadata.err # "none" THEN Rd(self3, metadata.err)
    ELSE LET rects == ListReadLoop(Rd(<<>>, "none"), RectSchema, 0,
                                   OrZero(metadata.obj, "total_rects"), 4, csv)
         IN Rd([self3 EXCEPT !.rects = rects.obj], rects.err)

\* ---------------------------------------------------------------- anim inputs
\* Texts the game's tables hold.
HeadName == <<"[", "m", "]">>

VersionCode == <<"1">>

FileName == <<"0", "_", "f">>

\* The name given to the s-th record a caller constructs: empty for the first.
SeedName(s) == IF s = 0 THEN <<>> ELSE <<"p">> \o NatToText(s)

\* KeyFrame(frame, change_in_value, ease_mode, ease_power), as a caller constructs it.
NewKeyFrame(s) ==
    [frame |-> s, change_in_value |-> 0 - (10 * s + 1), ease_mode |-> s + 1,
     ease_power |-> 12]

\* KeyFrames(model_id=..., ...), as a caller constructs it: no keyframes,
\* total_keyframes None.
NewKeyFrames(s) ==
    [keyframes |-> <<>>, model_id |-> s, modification_type |-> 11, loop |-> 0 - 1,
     min_value |-> 0, max_value |-> 10 * s, name |-> SeedName(s)]

\* ModelPart(...), as a caller constructs it.
NewModelPart(s) ==
    [parent_id |-> 0 - 1, unit_id |-> s, cut_id |-> s + 1, z_depth |-> 2, x |-> 3,
     y |-> 0 - 4, pivot_x |-> 5, pivot_y |-> 6, scale_x |-> 1000, scale_y |-> 0 - 1000,
     rotation |-> 90 * s, alpha |-> 255, glow |-> 0, name |-> SeedName(s)]

\* MamodelInts(...), as a caller constructs it.
NewMamodelInts(s) ==
    [int_0 |-> s, int_1 |-> 1, int_2 |-> 0 - 2, int_3 |-> 3, int_4 |-> 40, int_5 |-> 5,
     comment |-> SeedName(s)]

\* Rect(...), as a caller constructs it.
NewRect(s) == [x |-> s, y |-> 10, w |-> 20 + s, h |-> 30, name |-> SeedName(s)]

\* The objects as Model.read builds them from tables that hold no repetition.
DecodedKeyFrames == SetAttr(NewKeyFrames(1), "total_keyframes", 0)

DecodedMamodelIntsInts == [ints |-> <<>>, total_ints |-> 0]

DecodedUnitAnim ==
    [metadata |-> [head_name |-> HeadName, version_code |-> VersionCode, total_parts |-> 0],
     parts |-> <<>>, name |-> FileName]

DecodedMamodel ==
    [metadata |-> [head_name |-> HeadName, version_code |-> VersionCode, total_parts |-> 0],
     parts |-> <<>>,
     units |-> [scale_unit |-> 1000, angle_unit |-> 3600, alpha_unit |-> 1000],
     ints |-> DecodedMamodelIntsInts, mamodel_name |-> FileName]

DecodedTexture ==
    [metadata |-> [head_name |-> HeadName, version_code |-> VersionCode,
                   img_name |-> FileName, total_rects |-> 0],
     rects |-> <<>>, imgcut_name |-> FileName]

AnimKinds == {"Texture", "Mamodel", "MamodelIntsInts", "KeyFrames", "UnitAnim"}

Decoded(kind) ==
    CASE kind = "Texture" -> DecodedTexture
      [] kind = "Mamodel" -> DecodedMamodel
      [] kind = "MamodelIntsInts" -> DecodedMamodelIntsInts
      [] kind = "KeyFrames" -> DecodedKeyFrames
      [] kind = "UnitAnim" -> DecodedUnitAnim

\* The objects read_csv is called on: X() as the code constructs it before reading.
Constructed(kind, obj) ==
    CASE kind = "Texture" ->
            [metadata |-> NoAttrs, rects |-> <<>>, imgcut_name |-> obj.imgcut_name]
      [] kind = "Mamodel" ->
            [metadata |-> NoAttrs, parts |-> <<>>, units |-> NoAttrs,
             ints |-> [ints |-> <<>>], mamodel_name |-> obj.mamodel_name]
      [] kind = "MamodelIntsInts" -> [ints |-> <<>>]
      [] kind = "KeyFrames" -> [keyframes |-> <<>>]
      [] kind = "UnitAnim" -> [metadata |-> NoAttrs, parts |-> <<>>, name |-> obj.name]

\* The object under edit; after apply_csv: the object before the call, the
\* table written (lines), the cursor passed and the cursor returned; after
\* read_csv: what the new object read (back).
AnimState(kind, obj, before, lines, index, ret, back, op) ==
    [kind |-> kind, obj |-> obj, pre |-> before, lines |-> lines, index |-> index,
     ret |-> ret, back |-> back, op |-> op]

\* An object that has been edited since it was last written.
Editing(kind, obj) == AnimState(kind, obj, obj, <<>>, 0, 0, Rd(NoAttrs, "none"), "edit")

\* No animation object is loaded.
NoAnim == AnimState("none", NoAttrs, NoAttrs, <<>>, 0, 0, Rd(NoAttrs, "none"), "none")

\* An object of one kind as decoded from the game data.
Loaded(kind) ==
    AnimState(kind, Decoded(kind), Decoded(kind), <<>>, 0, 0, Rd(NoAttrs, "none"), "none")

\* ---------------------------------------------------------------- ServerFileHandler
\* The character U+FEFF (ord 65279), which a TSV's first name may start with.
BOM == "BOM"

\* str.isdigit(): at least one character, all of them digits.
IsDigitName(name) == name # <<>> /\ \A i \in DOMAIN name : IsDigitChar(name[i])

\* The rows the loop of extract passes over (continue).
Ignored(name) == name = <<>> \/ name[1] = BOM \/ IsDigitName(name)

\* The loop of extract over the rows of the TSV: found and hashes_equal when it
\* ends or breaks. The MD5 of a file on disk is kept in place of its content.
RECURSIVE ExtractLoop(_, _, _, _)
ExtractLoop(tsv, disk, found, hashes_equal) ==
    IF tsv = <<>> THEN [found |-> found, hashes_equal |-> hashes_equal]
    ELSE LET row == Head(tsv)
             name == row.name
         IN IF Ignored(name) THEN ExtractLoop(Tail(tsv), disk, found, hashes_equal)
            ELSE IF name \notin DOMAIN disk
                 THEN [found |-> FALSE, hashes_equal |-> hashes_equal]
                 ELSE IF row.md5 = disk[name]
                      THEN [found |-> found, hashes_equal |-> TRUE]
                      ELSE ExtractLoop(Tail(tsv), disk, found, hashes_equal)

\* zipf.extract(path): the files of the version's archive, those the TSV
\* names with the hashes it lists, are written over the ones on disk.
RECURSIVE ZipExtract(_, _)
ZipExtract(tsv, disk) ==
    IF tsv = <<>> THEN disk
    ELSE LET row == Head(tsv)
             rest == ZipExtract(Tail(tsv), disk)
         IN IF Ignored(row.name) THEN rest
            ELSE (row.name :> row.md5) @@ rest

\* ServerFileHandler.extract: what it returns or raises, whether it downloaded,
\* and the server files afterwards. tsv_paths holds one TSV.
Extract(tsv, disk, index, force) ==
    IF index >= 1 \/ index < 0
    THEN [ret |-> "ValueError", downloaded |-> FALSE, disk |-> disk]
    ELSE LET end == ExtractLoop(tsv, disk, TRUE, FALSE)
         IN IF ~force /\ end.found /\ end.hashes_equal
            THEN [ret |-> "False", downloaded |-> FALSE, disk |-> disk]
            ELSE [ret |-> "True", downloaded |-> TRUE, disk |-> ZipExtract(tsv, disk)]

\* The file names a TSV may hold in column 0, and its rows.
ServerNames == {<<"a">>, <<"b">>}

TsvNames == ServerNames \cup {<<>>, <<BOM, "a">>, <<"1", "2">>}

TsvRows == [name : TsvNames, md5 : 1 .. MaxHash]

Tsvs == UNION {[1 .. n -> TsvRows] : n \in 0 .. MaxTsvRows}

\* The server files that may be on disk: each by its MD5.
Disks == UNION {[S -> 1 .. MaxHash] : S \in SUBSET ServerNames}

ServerState(tsv, disk, op, index, force, ret, downloaded, before) ==
    [on |-> TRUE, tsv |-> tsv, disk |-> disk, op |-> op, index |-> index,
     force |-> force, ret |-> ret, downloaded |-> downloaded, before |-> before]

\* ---------------------------------------------------------------- GameVersion
\* str.zfill(width) of text without a sign.
RECURSIVE ZFill(_, _)
ZFill(t, width) == IF Len(t) >= width THEN t ELSE ZFill(<<"0">> \o t, width)

\* [t[i : i + 2] for i in range(0, len(t), 2)]
RECURSIVE Pairs(_)
Pairs(t) ==
    IF t = <<>> THEN <<>>
    ELSE IF Len(t) <= 2 THEN <<t>>
    ELSE <<SubSeq(t, 1, 2)>> \o Pairs(SubSeq(t, 3, Len(t)))

\* ".".join(parts)
RECURSIVE Join(_)
Join(parts) ==
    IF parts = <<>> THEN <<>>
    ELSE IF Len(parts) = 1 THEN parts[1]
    ELSE parts[1] \o <<".">> \o Join(Tail(parts))

\* t.split("."): the text before the first "." and, recursively, after it.
RECURSIVE Split(_, _)
Split(t, part) ==
    IF t = <<>> THEN <<part>>
    ELSE IF Head(t) = "." THEN <<part>> \o Split(Tail(t), <<>>)
    ELSE Split(Tail(t), Append(part, Head(t)))

\* int(t) of text made of digits; anything else raises ValueError.
IsDigits(t) == t # <<>> /\ \A i \in DOMAIN t : IsDigitChar(t[i])

\* GameVersion.to_string
VersionToString(game_version) ==
    LET split_gv == Pairs(ZFill(NatToText(game_version), 6))
    IN Join([i \in DOMAIN split_gv |-> NatToText(DigitsToNat(split_gv[i], 0))])

\* final += split.zfill(2) over the parts.
RECURSIVE ZFillAll(_)
ZFillAll(split_gv) ==
    IF split_gv = <<>> THEN <<>> ELSE ZFill(Head(split_gv), 2) \o ZFillAll(Tail(split_gv))

\* GameVersion.from_string: the game_version of the GameVersion returned.
VersionFromString(text) ==
    LET split0 == Split(text, <<>>)
        split_gv == IF Len(split0) = 2 THEN Append(split0, <<"0">>) ELSE split0
        final == ZFillAll(split_gv)
    IN IF IsDigits(final) THEN DigitsToNat(final, 0) ELSE 0

\* An operand of a comparison: a GameVersion, an int, a str or something else
\* (None, a float); n is its number, text its string.
Operand(type, n, text) == [type |-> type, n |-> n, text |-> text]

\* GameVersion.__lt__
VersionLt(game_version, b) ==
    IF b.type = "GameVersion" THEN game_version < b.n
    ELSE IF b.type = "int" THEN game_version < b.n
    ELSE IF b.type = "str" THEN game_version < VersionFromString(b.text)
    ELSE FALSE

\* GameVersion.__eq__
VersionEq(game_version, b) ==
    IF b.type = "GameVersion" THEN game_version = b.n
    ELSE IF b.type = "int" THEN game_version = b.n
    ELSE IF b.type = "str" THEN game_version = VersionFromString(b.text)
    ELSE FALSE

\* GameVersion.__le__
VersionLe(game_version, b) == VersionLt(game_version, b) \/ VersionEq(game_version, b)

\* GameVersion.__gt__
VersionGt(game_version, b) == ~VersionLe(game_version, b)

\* GameVersion.__ge__
VersionGe(game_version, b) == ~VersionLt(game_version, b)

\* The parts of the versions tried, and the versions: up to six digits from
\* three parts, and some of seven and eight digits.
VersionParts == (0 .. MaxPart) \cup {9, 10, 99}

LongVersions == {1000000, 1234567, 10000000}

Versions ==
    {a * 10000 + b * 100 + c : a \in VersionParts, b \in VersionParts, c \in VersionParts}
        \cup LongVersions

\* The strings "a.b.c" of three parts, with and without leading zeros.
VersionTexts ==
    {Join(<<NatToText(a), NatToText(b), NatToText(c)>>) :
        a \in VersionParts, b \in VersionParts, c \in VersionParts}
    \cup
    {Join(<<ZFill(NatToText(a), 2), ZFill(NatToText(b), 2), ZFill(NatToText(c), 2)>>) :
        a \in VersionParts, b \in VersionParts, c \in VersionParts}

\* The operands a version is compared with: versions around it as GameVersion,
\* int and string (also with two parts, and malformed), and a non-version.
Operands(game_version) ==
    LET near == {n \in {0, game_version - 1, game_version, game_version + 1} : n >= 0}
    IN {Operand(type, n, <<>>) : type \in {"GameVersion", "int"}, n \in near}
         \cup {Operand("str", 0, VersionToString(n)) : n \in near}
         \cup {Operand("str", 0, text) : text \in {<<"1", "2", ".", "1">>, <<"x">>, <<>>}}
         \cup {Operand("other", 0, <<>>)}

VersionState(game_version, op, b, text, out) ==
    [on |-> TRUE, game_version |-> game_version, op |-> op, b |-> b, text |-> text,
     out |-> out]

NoResults == [lt |-> FALSE, eq |-> FALSE, le |-> FALSE, gt |-> FALSE, ge |-> FALSE,
              text |-> <<>>, game_version |-> 0]

\* ---------------------------------------------------------------- Model flips
\* AnimModificationType.ANGLE.value
ANGLE == 11

\* x *= -1 when the attribute is not None.
Negated(obj, name) == IF name \in DOMAIN obj THEN [obj EXCEPT ![name] = 0 - @] ELSE obj

\* ModelPart.flip_rotation
FlipRotation(part) == Negated(part, "rotation")

\* Mutant of PartFlipX: the scale is negated at every index.
PartFlipXAnyIndex(part, index) == FlipRotation(Negated(part, "scale_x"))

\* ModelPart.flip_x
PartFlipX(part, index) ==
    FlipRotation(IF index = 0 THEN Negated(part, "scale_x") ELSE part)

\* ModelPart.flip_y
PartFlipY(part, index) ==
    FlipRotation(IF index = 0 THEN Negated(part, "scale_y") ELSE part)

\* KeyFrames.flip: modification_type None is not ANGLE.
KeyFramesFlip(self) ==
    IF "modification_type" \notin DOMAIN self \/ self.modification_type # ANGLE THEN self
    ELSE [self EXCEPT !.keyframes =
              [i \in DOMAIN self.keyframes |-> Negated(self.keyframes[i], "change_in_value")]]

\* UnitAnim.flip
UnitAnimFlip(self) ==
    [self EXCEPT !.parts = [i \in DOMAIN self.parts |-> KeyFramesFlip(self.parts[i])]]

\* Model.flip_anims: the anims afterwards.
FlipAnims(anims) == [i \in DOMAIN anims |-> UnitAnimFlip(anims[i])]

\* Model.flip_x: the parts of the mamodel (enumerate counts from 0) and the anims.
ModelFlipX(self) ==
    [self EXCEPT !.parts = [i \in DOMAIN self.parts |-> PartFlipX(self.parts[i], i - 1)],
                 !.anims = FlipAnims(self.anims)]

\* Model.flip_y
ModelFlipY(self) ==
    [self EXCEPT !.parts = [i \in DOMAIN self.parts |-> PartFlipY(self.parts[i], i - 1)],
                 !.anims = FlipAnims(self.anims)]

\* The ModelParts tried: all attributes set, rotation None, the scales None.
PartChoices ==
    {NewModelPart(1),
     [n \in DOMAIN NewModelPart(1) \ {"rotation"} |-> NewModelPart(1)[n]],
     [n \in DOMAIN NewModelPart(1) \ {"scale_x", "scale_y"} |-> NewModelPart(1)[n]]}

\* The KeyFrames tried: with a change_in_value, and with None.
KeyFrameChoices ==
    {NewKeyFrame(1), [n \in DOMAIN NewKeyFrame(1) \ {"change_in_value"} |-> NewKeyFrame(1)[n]]}

Lists(S) == UNION {[1 .. n -> S] : n \in 0 .. MaxList}

\* The KeyFrames blocks tried: ANGLE, SCALE_X and no modification_type.
BlockChoices ==
    {[NewKeyFrames(1) EXCEPT !.keyframes = k, !.modification_type = t] :
        k \in Lists(KeyFrameChoices), t \in {ANGLE, 9}}
    \cup
    {[n \in DOMAIN NewKeyFrames(1) \ {"modification_type"} |->
        IF n = "keyframes" THEN k ELSE NewKeyFrames(1)[n]] : k \in Lists(KeyFrameChoices)}

\* A UnitAnim with the given blocks.
AnimOf(blocks) == [DecodedUnitAnim EXCEPT !.parts = blocks]

\* The anims of the Models tried: none, one anim of at most one block, and
\* that anim followed by one with an ANGLE block.
AnimLists ==
    LET one == {AnimOf(<<>>)} \cup {AnimOf(<<b>>) : b \in BlockChoices}
        angle == AnimOf(<<[NewKeyFrames(0) EXCEPT !.keyframes = <<NewKeyFrame(0)>>]>>)
    IN {<<>>} \cup {<<a>> : a \in one} \cup {<<a, angle>> : a \in one}

\* The Model as it is, the flips made on it and the Model before each of them.
RigState(parts, anims, ops, hist) ==
    [on |-> TRUE, parts |-> parts, anims |-> anims, ops |-> ops, hist |-> hist]

\* ---------------------------------------------------------------- FrameClock
\* QTimer.start(msec): the timer runs with that interval.
TimerStart(msec) == [active |-> TRUE, interval |-> msec]

\* QTimer.stop(): the timer emits no timeout until it is started again.
TimerStop(t) == [t EXCEPT !.active = FALSE]

\* FrameClock.__init__: both timers are started.
FrameClock(fps) ==
    [fps |-> fps, timer |-> TimerStart(1000 \div fps), frame |-> 0, perm_frame |-> 0,
     funcs |-> <<>>, perm_funcs |-> <<>>, perm_timer |-> TimerStart(1000 \div fps)]

\* FrameClock.tick: the clock afterwards and the functions called, in order.
ClockTick(self) ==
    [self |-> [self EXCEPT !.frame = @ + 1], calls |-> self.funcs]

\* FrameClock.tick_perm
ClockTickPerm(self) ==
    [self |-> [self EXCEPT !.perm_frame = @ + 1], calls |-> self.perm_funcs]

\* FrameClock.add_func
ClockAddFunc(self, func) == [self EXCEPT !.funcs = Append(@, func)]

\* FrameClock.add_perm_func
ClockAddPermFunc(self, func) == [self EXCEPT !.perm_funcs = Append(@, func)]

\* list.remove: the first occurrence goes.
ListRemove(l, x) ==
    LET i == CHOOSE j \in DOMAIN l : l[j] = x /\ \A k \in 1 .. j - 1 : l[k] # x
    IN SubSeq(l, 1, i - 1) \o SubSeq(l, i + 1, Len(l))

\* FrameClock.remove_func
ClockRemoveFunc(self, func) == [self EXCEPT !.funcs = ListRemove(@, func)]

\* FrameClock.remove_perm_func
ClockRemovePermFunc(self, func) == [self EXCEPT !.perm_funcs = ListRemove(@, func)]

\* FrameClock.start
ClockStart(self) == [self EXCEPT !.timer = TimerStart(1000 \div self.fps)]

\* Mutant of ClockStop: the permanent timer is the one stopped.
ClockStopPerm(self) == [self EXCEPT !.perm_timer = TimerStop(@)]

\* FrameClock.stop
ClockStop(self) == [self EXCEPT !.timer = TimerStop(@)]

\* The frame rates and the callables tried.
FpsChoices == {30, 60}

FuncNames == {"f", "g"}

\* The FrameClock, the last operation on it, the functions that operation
\* called, the FrameClock before it, and whether stop() was called with no
\* start() since.
ClockState(self, op, called, before, halted) ==
    [on |-> TRUE, self |-> self, op |-> op, calls |-> called, before |-> before,
     halted |-> halted]

\* ---------------------------------------------------------------- Path
\* A path is its characters; a disk maps the entries of directory d, each
\* named by its components, to what is there.
Sep == "/"

AbsentNode == [kind |-> "absent", data |-> 0]

FileNode(n) == [kind |-> "file", data |-> n]

DirNode(n) == [kind |-> "dir", data |-> n]

\* str.rfind("/") + 1
RFind(t) ==
    IF \E i \in DOMAIN t : t[i] = Sep
    THEN CHOOSE i \in DOMAIN t : t[i] = Sep /\ \A j \in i + 1 .. Len(t) : t[j] # Sep
    ELSE 0

\* str.rstrip("/")
RECURSIVE RStrip(_)
RStrip(t) ==
    IF t # <<>> /\ t[Len(t)] = Sep THEN RStrip(SubSeq(t, 1, Len(t) - 1)) ELSE t

\* os.path.dirname
Dirname(t) ==
    LET head == SubSeq(t, 1, RFind(t))
    IN IF head # <<>> /\ \E i \in DOMAIN head : head[i] # Sep THEN RStrip(head) ELSE head

\* os.path.join of two strings
PathJoin(a, b) ==
    IF b # <<>> /\ b[1] = Sep THEN b
    ELSE IF a = <<>> \/ a[Len(a)] = Sep THEN a \o b
    ELSE a \o <<Sep>> \o b

\* Path.parent
Parent(t) == Dirname(t)

\* Path.change_name
ChangeName(t, name) == PathJoin(Parent(t), name)

\* The entry a path names: its components, each one character here, with
\* repeated separators counting as one.
Entry(t) == SelectSeq(t, LAMBDA c : c # Sep)

\* What the disk holds at a path.
NodeAt(disk, t) == IF Entry(t) \in DOMAIN disk THEN disk[Entry(t)] ELSE AbsentNode

\* Path.exists
PathExists(disk, t) == NodeAt(disk, t).kind # "absent"

\* Path.is_directory
IsDirectory(disk, t) == NodeAt(disk, t).kind = "dir"

\* shutil.rmtree and os.remove: the entry is gone.
Unlinked(disk, t) == [disk EXCEPT ![Entry(t)] = AbsentNode]

\* Path.remove_tree
RemoveTree(disk, t) == IF PathExists(disk, t) THEN Unlinked(disk, t) ELSE disk

\* Path.remove
PathRemove(disk, t) ==
    IF PathExists(disk, t)
    THEN (IF IsDirectory(disk, t) THEN RemoveTree(disk, t) ELSE Unlinked(disk, t))
    ELSE disk

\* os.rename: a missing source is FileNotFoundError, the same entry is left
\* alone, a file replaces a file, a directory goes to a free name or over an
\* empty directory, anything else is OSError.
OsRename(disk, src, dst) ==
    LET old == NodeAt(disk, src)
        there == NodeAt(disk, dst)
        moved == [disk EXCEPT ![Entry(src)] = AbsentNode, ![Entry(dst)] = old]
    IN IF old.kind = "absent" THEN [disk |-> disk, ret |-> "FileNotFoundError"]
       ELSE IF Entry(src) = Entry(dst) THEN [disk |-> disk, ret |-> "None"]
       ELSE IF there.kind = "absent" \/ (there.kind = "file" /\ old.kind = "file")
                 \/ (there = DirNode(0) /\ old.kind = "dir")
            THEN [disk |-> moved, ret |-> "None"]
       ELSE [disk |-> disk, ret |-> "OSError"]

\* Path.rename: the disk afterwards and None or the exception raised.
Rename(disk, path, name, overwrite) ==
    LET new_path == ChangeName(path, name)
    IN IF ~PathExists(disk, path) THEN [disk |-> disk, ret |-> "FileNotFoundError"]
       ELSE IF new_path = path THEN [disk |-> disk, ret |-> "None"]
       ELSE IF PathExists(disk, new_path) /\ ~overwrite
            THEN [disk |-> disk, ret |-> "FileExistsError"]
       ELSE OsRename(IF PathExists(disk, new_path) THEN PathRemove(disk, new_path) ELSE disk,
                     path, new_path)

\* The entries of d, the paths that name them and the new names tried.
Entries == {<<"d", "a">>, <<"d", "b">>}

PathChoices == {<<"d", Sep, "a">>, <<"d", Sep, Sep, "a">>, <<"d", Sep, "b">>}

NameChoices == {<<"a">>, <<"b">>}

\* Nothing, a file or a directory (data 0: empty).
Nodes ==
    {AbsentNode} \cup {FileNode(n) : n \in 1 .. MaxData} \cup {DirNode(n) : n \in 0 .. 1}

\* The disk, the renames made and the last one: its arguments, its outcome
\* and the disk before it.
FsState(disk, n, path, name, overwrite, ret, before) ==
    [on |-> TRUE, disk |-> disk, n |-> n, path |-> path, name |-> name,
     overwrite |-> overwrite, ret |-> ret, before |-> before]

\* ---------------------------------------------------------------- Init
\* The current shop is the one decoded from the game data; no mod is loaded.
InitShop ==
    /\ gd \in {BaseRows(n) : n \in 0 .. MaxId + 1}
    /\ heap = gd
    /\ items = [i \in DOMAIN gd |-> [k |-> gd[i].shop_id, v |-> i]]
    /\ other = <<>>
    /\ otherId = 0
    /\ err = "none"
    /\ calls = <<>>
    /\ pre = <<>>

\* The current MainChara (object 1) is the one decoded from the game data; no
\* mod's MainChara is loaded (otherOid = None).
InitChara ==
    /\ chara \in {[model |-> g, other |-> 0, otherOid |-> None, gd |-> g, nextOid |-> 2] :
                     g \in 0 .. MaxModel}
    /\ charaCalls = <<>>

\* Either no animation object is loaded, or one of one kind is.
InitAnim == anim \in {NoAnim} \cup {Loaded(kind) : kind \in AnimKinds}

\* No mod archive has been read.
InitZip == zip = NoZip

\* No current Audio, or one with the game's files and no import made.
NoAudio == [on |-> FALSE, audio_files |-> <<>>, imports |-> <<>>]

InitAudio ==
    audio \in {NoAudio} \cup
              {[on |-> TRUE, audio_files |-> d, imports |-> <<>>] : d \in AudioChoices}

\* No ServerFileHandler, or one with its TSV and the server files on disk.
NoServer == [on |-> FALSE]

InitServer ==
    server \in {NoServer} \cup
               {ServerState(tsv, disk, "none", 0, FALSE, "none", FALSE, disk) :
                    tsv \in Tsvs, disk \in Disks}

\* No GameVersion, or GameVersion(game_version) just constructed.
NoVersion == [on |-> FALSE]

InitVersion ==
    version \in {NoVersion} \cup
                {VersionState(v, "none", Operand("other", 0, <<>>), <<>>, NoResults) :
                    v \in Versions}

\* No Model, or one as loaded with no flip made.
NoRig == [on |-> FALSE]

InitRig ==
    rig \in {NoRig} \cup
            {RigState(parts, anims, <<>>, <<>>) :
                parts \in Lists(PartChoices), anims \in AnimLists}

\* No FrameClock, or one as constructed.
NoClock == [on |-> FALSE]

InitClock ==
    clock \in {NoClock} \cup
              {ClockState(FrameClock(fps), "init", <<>>, FrameClock(fps), FALSE) :
                  fps \in FpsChoices}

\* No disk, or one with no rename made.
NoFs == [on |-> FALSE]

InitFs ==
    fs \in {NoFs} \cup
           {FsState(disk, 0, <<>>, <<>>, FALSE, "none", disk) : disk \in [Entries -> Nodes]}

Init ==
    /\ InitShop /\ InitChara /\ InitAnim /\ InitZip
    /\ InitAudio /\ InitServer /\ InitVersion /\ InitRig /\ InitClock /\ InitFs

\* Nothing but the shop, the MainChara, the animation object and the archive.
AuxIdle ==
    /\ audio = NoAudio /\ server = NoServer /\ version = NoVersion
    /\ rig = NoRig /\ clock = NoClock /\ fs = NoFs

\* Runs that work on the item shop only, on the MainChara only, and on an
\* animation object only.
InitShopOnly == InitShop /\ InitChara /\ chara.gd = 0 /\ anim = NoAnim /\ zip = NoZip /\ AuxIdle

InitCharaOnly == InitShop /\ gd = <<>> /\ InitChara /\ anim = NoAnim /\ zip = NoZip /\ AuxIdle

\* The shop and the MainChara of a game without items, nothing else loaded.
Idle == InitShop /\ gd = <<>> /\ InitChara /\ chara.gd = 0

InitAnimOnly == Idle /\ InitAnim /\ anim # NoAnim /\ zip = NoZip /\ AuxIdle

\* The game data's table is decoded and the current shop is not built yet.
InitIngest ==
    /\ gd \in DecodedTables
    /\ heap = <<>>
    /\ items = <<>>
    /\ other = <<>>
    /\ otherId = 0
    /\ err = "none"
    /\ calls = <<>>
    /\ pre = <<>>
    /\ InitChara
    /\ chara.gd = 0
    /\ anim = NoAnim
    /\ InitZip
    /\ AuxIdle

InitZipOnly == Idle /\ anim = NoAnim /\ zip = NoZip /\ AuxIdle

\* Runs on the ServerFileHandler only.
InitServerOnly ==
    /\ Idle /\ anim = NoAnim /\ zip = NoZip
    /\ audio = NoAudio /\ InitServer /\ server # NoServer /\ version = NoVersion
    /\ rig = NoRig /\ clock = NoClock /\ fs = NoFs

\* Runs on a GameVersion only.
InitVersionOnly ==
    /\ Idle /\ anim = NoAnim /\ zip = NoZip
    /\ audio = NoAudio /\ server = NoServer /\ InitVersion /\ version # NoVersion
    /\ rig = NoRig /\ clock = NoClock /\ fs = NoFs

\* Runs on a disk only.
InitFsOnly ==
    /\ Idle /\ anim = NoAnim /\ zip = NoZip
    /\ audio = NoAudio /\ server = NoServer /\ version = NoVersion /\ rig = NoRig
    /\ clock = NoClock /\ InitFs /\ fs # NoFs

\* Runs on a FrameClock only.
InitClockOnly ==
    /\ Idle /\ anim = NoAnim /\ zip = NoZip
    /\ audio = NoAudio /\ server = NoServer /\ version = NoVersion /\ rig = NoRig
    /\ InitClock /\ clock # NoClock /\ fs = NoFs

\* Runs on a Model only.
InitRigOnly ==
    /\ Idle /\ anim = NoAnim /\ zip = NoZip
    /\ audio = NoAudio /\ server = NoServer /\ version = NoVersion
    /\ InitRig /\ rig # NoRig /\ clock = NoClock /\ fs = NoFs

\* Runs on the current Audio only.
InitAudioOnly ==
    /\ Idle /\ anim = NoAnim /\ zip = NoZip
    /\ InitAudio /\ audio # NoAudio /\ server = NoServer /\ version = NoVersion
    /\ rig = NoRig /\ clock = NoClock /\ fs = NoFs

\* ---------------------------------------------------------------- actions
\* One entry of the call log.
CallEntry(op, a, b, e) ==
    [op |-> op, a |-> a, b |-> b, err |-> e, oid |-> otherId,
     other |-> Snapshot(other, heap)]

\* The object a caller has just constructed: the newest on the heap.
NewRef == Len(heap) + 1

\* A call on the current shop that ends in st.
Called(op, a, b, st) ==
    /\ Len(calls) < MaxCalls
    /\ heap' = st.heap
    /\ items' = st.items
    /\ err' = st.err
    /\ calls' = Append(calls, CallEntry(op, a, b, st.err))
    /\ pre' = Snapshot(items, heap)
    /\ UNCHANGED <<gd, other, otherId, chara, charaCalls, anim, zip, auxVars>>

Now == St(heap, items, "none")

\* ItemShop.from_zip / deserialize: a mod's shop is built from fresh Item objects.
\* A mod is loaded once the one before it has been imported.
LoadMod ==
    /\ otherId < MaxLoads
    /\ otherId = 0 \/ \E i \in DOMAIN calls :
                         calls[i].op = "import_item_shop" /\ calls[i].oid = otherId
    /\ \E json_data \in {NoFile} \cup {File(m) : m \in ModChoices} :
        LET ret == ItemShopFromZip(json_data)
            m == ret.obj
        IN /\ heap' = heap \o m
           /\ other' = [i \in DOMAIN m |-> [k |-> m[i].shop_id, v |-> Len(heap) + i]]
           /\ zip' = ZipCall("ItemShop", json_data, ret)
    /\ otherId' = otherId + 1
    /\ UNCHANGED <<gd, items, err, calls, pre, chara, charaCalls, anim, auxVars>>

\* self.import_item_shop(other, game_data)
DoImport ==
    /\ otherId > 0
    /\ Called("import_item_shop", 0, 0, ImportItemShop(Now, other, gd))

\* self.remove_item(k)
DoRemove ==
    \E k \in 0 .. MaxId : Called("remove_item", k, 0, RemoveItem(Now, k))

\* self.insert_item(k, Item(...))
DoInsert ==
    \E k \in 0 .. MaxId + 1 :
        Called("insert_item", k, 0,
               InsertItem(St(Append(heap, NewItem(0)), items, "none"), k, NewRef))

\* self.set_item(k, Item(...))
DoSet ==
    \E k \in 0 .. MaxId + 1 :
        Called("set_item", k, 0,
               SetItem(St(Append(heap, NewItem(0)), items, "none"), k, NewRef))

\* self.add_item(Item(shop_id=k, ...))
DoAdd ==
    \E k \in 0 .. MaxId + 1 :
        Called("add_item", k, 0,
               AddItem(St(Append(heap, NewItem(k)), items, "none"), NewRef))

\* self.shift_items(start_index, shift)
DoShift ==
    \E start_index \in 0 .. MaxId + 1, shift \in {-1, 1} :
        Called("shift_items", start_index, shift, ShiftItems(Now, start_index, shift))

\* self = ItemShop.from_game_data(game_data): the current shop is built from
\* the decoded table, before any call on it or after the table was written.
DoFromGameData ==
    /\ IF calls = <<>> THEN TRUE ELSE calls[Len(calls)].op = "to_game_data"
    /\ LET d == FromGameData(gd) IN
       Called("from_game_data", 0, 0,
              St(heap \o [i \in DOMAIN d |-> d[i].v],
                 [i \in DOMAIN d |-> [k |-> d[i].k, v |-> Len(heap) + i]],
                 "none"))

\* self.to_game_data(game_data), the game data holding itemShopData.tsv.
DoToGameData ==
    /\ Len(calls) < MaxCalls
    /\ LET done == ToGameData(Now, gd) IN
       /\ gd' = done.rows
       /\ err' = done.err
       /\ calls' = Append(calls, CallEntry("to_game_data", 0, 0, done.err))
    /\ pre' = Snapshot(items, heap)
    /\ UNCHANGED <<heap, items, other, otherId, chara, charaCalls, anim, zip, auxVars>>

\* Editing the current shop, writing it to the game data and decoding it again.
NextReencode == DoSet \/ DoInsert \/ DoRemove \/ DoToGameData \/ DoFromGameData

SpecReencode == InitShopOnly /\ [][NextReencode]_vars

\* Building the current shop from a decoded table.
NextIngest == DoFromGameData

SpecIngest == InitIngest /\ [][NextIngest]_vars

\* Merging mods into the current shop, with positional edits in between.
EditsDone == Cardinality({i \in DOMAIN calls : calls[i].op # "import_item_shop"})

NextMerge ==
    \/ LoadMod
    \/ DoImport
    \/ EditsDone < MaxEdits /\ DoRemove
    \/ EditsDone < MaxEdits /\ DoInsert

SpecMerge == InitShopOnly /\ [][NextMerge]_vars

\* Editing the current shop by position.
NextShift == DoSet \/ DoAdd \/ DoInsert \/ DoRemove \/ DoShift

SpecShift == InitShopOnly /\ [][NextShift]_vars

\* Editing the current shop with insert_item and remove_item only.
NextPositional == DoInsert \/ DoRemove

SpecPositional == InitShopOnly /\ [][NextPositional]_vars

\* ---------------------------------------------------------------- MainChara
\* A MainChara object: its identity and the content of the Model it refers to.
MainChara(oid, model) == [oid |-> oid, model |-> model]

\* MainChara.from_game_data: a new MainChara object around the decoded model.
CharaFromGameData(c) == MainChara(c.nextOid, c.gd)

\* gd_chara != other: MainChara defines no __eq__, so objects compare by identity.
CharaNe(a, b) == a.oid # b.oid

\* MainChara.import_main_chara
ImportMainChara(c) ==
    LET gd_chara == CharaFromGameData(c)
        c2 == [c EXCEPT !.nextOid = @ + 1]
    IN IF CharaNe(gd_chara, MainChara(c.otherOid, c.other))
       THEN [c2 EXCEPT !.model = c.other]
       ELSE c2

\* MainChara.from_zip / deserialize: a mod's MainChara is a new object.
\* A mod is loaded once the one before it has been imported.
LoadChara ==
    /\ Len(charaCalls) < MaxCharaCalls
    /\ chara.otherOid = None
          \/ \E i \in DOMAIN charaCalls : charaCalls[i].oid = chara.otherOid
    /\ \E json_data \in {NoFile} \cup {File(m) : m \in 0 .. MaxModel} :
        LET ret == MainCharaFromZip(json_data) IN
        /\ chara' = [chara EXCEPT !.other = ret.obj, !.otherOid = chara.nextOid,
                                   !.nextOid = @ + 1]
        /\ zip' = ZipCall("MainChara", json_data, ret)
    /\ UNCHANGED <<charaCalls, gd, heap, items, other, otherId, err, calls, pre, anim, auxVars>>

\* self.import_main_chara(other, game_data)
DoImportChara ==
    /\ Len(charaCalls) < MaxCharaCalls
    /\ chara.otherOid # None
    /\ chara' = ImportMainChara(chara)
    /\ charaCalls' = Append(charaCalls,
                           [other |-> chara.other, oid |-> chara.otherOid, pre |-> chara.model])
    /\ UNCHANGED <<gd, heap, items, other, otherId, err, calls, pre, anim, zip, auxVars>>

NextChara == LoadChara \/ DoImportChara

SpecChara == InitCharaOnly /\ [][NextChara]_vars

\* ---------------------------------------------------------------- Audio
\* Audio.from_zip(zip_file)
LoadAudio ==
    /\ \E json_data \in {NoFile} \cup {File(l) : l \in AudioLists},
          files \in AudioArchives :
        zip' = ZipCall("Audio", json_data, AudioFromZip(json_data, files))
    /\ UNCHANGED <<shopVars, charaVars, anim, auxVars>>

\* self.import_audio(other), other the Audio the last from_zip returned.
DoImportAudio ==
    /\ audio.on
    /\ Len(audio.imports) < MaxImports
    /\ zip.asset = "Audio" /\ ~zip.ret.none /\ zip.ret.err = "none"
    /\ LET other_audio == zip.ret.obj
           done == ImportAudio(audio.audio_files, other_audio)
       IN audio' = [audio EXCEPT
                       !.audio_files = done.audio_files,
                       !.imports = Append(@, [pre |-> audio.audio_files,
                                              other |-> other_audio,
                                              after |-> done.other])]
    /\ UNCHANGED <<shopVars, charaVars, anim, zip, server, version, rig, clock, fs>>

\* Loading mods' audio and importing it into the current Audio.
NextAudio == LoadAudio \/ DoImportAudio

SpecAudio == InitAudioOnly /\ [][NextAudio]_vars

\* Reading one mod archive: each asset type's from_zip.
NextZip == LoadMod \/ LoadChara \/ LoadAudio

SpecZip == InitZipOnly /\ [][NextZip]_vars

\* ---------------------------------------------------------------- ServerFileHandler actions
\* handler.extract(index, force=force)
DoExtract ==
    /\ server.on
    /\ \E index \in 0 .. 1, force \in BOOLEAN :
        LET done == Extract(server.tsv, server.disk, index, force) IN
        server' = ServerState(server.tsv, done.disk, "extract", index, force,
                              done.ret, done.downloaded, server.disk)
    /\ UNCHANGED <<shopVars, charaVars, anim, zip, audio, version, rig, clock, fs>>

\* A server file is deleted or replaced outside the program.
DiskChanges ==
    /\ server.on
    /\ \E disk \in Disks :
        /\ disk # server.disk
        /\ server' = ServerState(server.tsv, disk, "none", 0, FALSE, "none", FALSE,
                                 server.disk)
    /\ UNCHANGED <<shopVars, charaVars, anim, zip, audio, version, rig, clock, fs>>

NextServer == DoExtract \/ DiskChanges

SpecServer == InitServerOnly /\ [][NextServer]_vars

\* ---------------------------------------------------------------- GameVersion actions
\* a < b, a == b, a <= b, a > b, a >= b for a = GameVersion(game_version).
DoCompare ==
    /\ version.on
    /\ \E b \in Operands(version.game_version) :
        LET a == version.game_version IN
        version' = VersionState(a, "compare", b, <<>>,
                       [NoResults EXCEPT !.lt = VersionLt(a, b), !.eq = VersionEq(a, b),
                                         !.le = VersionLe(a, b), !.gt = VersionGt(a, b),
                                         !.ge = VersionGe(a, b)])
    /\ UNCHANGED <<shopVars, charaVars, anim, zip, audio, server, rig, clock, fs>>

\* GameVersion.from_string(a.to_string())
DoToString ==
    /\ version.on
    /\ LET a == version.game_version
           text == VersionToString(a)
       IN version' = VersionState(a, "to_string", Operand("other", 0, <<>>), text,
                         [NoResults EXCEPT !.text = text, !.game_version = VersionFromString(text)])
    /\ UNCHANGED <<shopVars, charaVars, anim, zip, audio, server, rig, clock, fs>>

\* GameVersion.from_string(text).to_string(). from_string is static: the
\* result does not depend on the version held, so it is called first.
DoFromString ==
    /\ version.on
    /\ version.op = "none"
    /\ \E text \in VersionTexts :
        LET v == VersionFromString(text) IN
        version' = VersionState(v, "from_string", Operand("other", 0, <<>>), text,
                       [NoResults EXCEPT !.text = VersionToString(v), !.game_version = v])
    /\ UNCHANGED <<shopVars, charaVars, anim, zip, audio, server, rig, clock, fs>>

NextVersion == DoCompare \/ DoToString \/ DoFromString

SpecVersion == InitVersionOnly /\ [][NextVersion]_vars

\* ---------------------------------------------------------------- Model flip actions
Flipped(op, done) ==
    /\ rig.on
    /\ Len(rig.ops) < MaxFlips
    /\ rig' = RigState(done.parts, done.anims, Append(rig.ops, op),
                       Append(rig.hist, [parts |-> rig.parts, anims |-> rig.anims]))
    /\ UNCHANGED <<shopVars, charaVars, anim, zip, audio, server, version, clock, fs>>

\* model.flip_x()
DoFlipX == rig.on /\ Flipped("flip_x", ModelFlipX(rig))

\* model.flip_y()
DoFlipY == rig.on /\ Flipped("flip_y", ModelFlipY(rig))

NextRig == DoFlipX \/ DoFlipY

SpecRig == InitRigOnly /\ [][NextRig]_vars

\* ---------------------------------------------------------------- FrameClock actions
ClockStep(op, self, called, halted) ==
    /\ clock' = ClockState(self, op, called, clock.self, halted)
    /\ UNCHANGED <<shopVars, charaVars, anim, zip, audio, server, version, rig, fs>>

\* timer.timeout: emitted only while the timer runs.
TimerTimeout ==
    /\ clock.on
    /\ clock.self.timer.active
    /\ clock.self.frame < MaxTicks
    /\ ClockStep("tick", ClockTick(clock.self).self, ClockTick(clock.self).calls, clock.halted)

\* perm_timer.timeout
PermTimerTimeout ==
    /\ clock.on
    /\ clock.self.perm_timer.active
    /\ clock.self.perm_frame < MaxTicks
    /\ ClockStep("tick_perm", ClockTickPerm(clock.self).self,
                 ClockTickPerm(clock.self).calls, clock.halted)

\* clock.add_func(func)
DoAddFunc ==
    /\ clock.on
    /\ Len(clock.self.funcs) < MaxFuncs
    /\ \E func \in FuncNames :
          ClockStep("add_func", ClockAddFunc(clock.self, func), <<>>, clock.halted)

\* clock.add_perm_func(func)
DoAddPermFunc ==
    /\ clock.on
    /\ Len(clock.self.perm_funcs) < MaxFuncs
    /\ \E func \in FuncNames :
          ClockStep("add_perm_func", ClockAddPermFunc(clock.self, func), <<>>, clock.halted)

\* clock.remove_func(func): ValueError, and nothing changed, for one not in the list.
DoRemoveFunc ==
    /\ clock.on
    /\ \E func \in FuncNames :
          IF \E i \in DOMAIN clock.self.funcs : clock.self.funcs[i] = func
          THEN ClockStep("remove_func", ClockRemoveFunc(clock.self, func), <<>>, clock.halted)
          ELSE ClockStep("ValueError", clock.self, <<>>, clock.halted)

\* clock.remove_perm_func(func)
DoRemovePermFunc ==
    /\ clock.on
    /\ \E func \in FuncNames :
          IF \E i \in DOMAIN clock.self.perm_funcs : clock.self.perm_funcs[i] = func
          THEN ClockStep("remove_perm_func", ClockRemovePermFunc(clock.self, func), <<>>,
                         clock.halted)
          ELSE ClockStep("ValueError", clock.self, <<>>, clock.halted)

\* clock.start()
DoStart == clock.on /\ ClockStep("start", ClockStart(clock.self), <<>>, FALSE)

\* clock.stop()
DoStop == clock.on /\ ClockStep("stop", ClockStop(clock.self), <<>>, TRUE)

NextClock ==
    \/ TimerTimeout \/ PermTimerTimeout \/ DoAddFunc \/ DoAddPermFunc
    \/ DoRemoveFunc \/ DoRemovePermFunc \/ DoStart \/ DoStop

SpecClock == InitClockOnly /\ [][NextClock]_vars

\* The permanent timer is never stopped, so its next timeout always comes.
SpecClockLive == SpecClock /\ WF_vars(PermTimerTimeout)

\* ---------------------------------------------------------------- Path actions
\* Path(path).rename(name, overwrite)
DoRename ==
    /\ fs.on
    /\ fs.n < MaxRenames
    /\ \E path \in PathChoices, name \in NameChoices, overwrite \in BOOLEAN :
          LET done == Rename(fs.disk, path, name, overwrite)
          IN fs' = FsState(done.disk, fs.n + 1, path, name, overwrite, done.ret, fs.disk)
    /\ UNCHANGED <<shopVars, charaVars, anim, zip, audio, server, version, rig, clock>>

NextFs == DoRename

SpecFs == InitFsOnly /\ [][NextFs]_vars

\* ---------------------------------------------------------------- anim actions
\* list.append(x) on one list of the object, x the s-th record a caller constructs.
Appended(kind, obj, s) ==
    CASE kind = "Texture" ->
            (IF Len(obj.rects) < MaxList THEN {[obj EXCEPT !.rects = Append(@, NewRect(s))]} ELSE {})
      [] kind = "Mamodel" ->
            (IF Len(obj.parts) < MaxList THEN {[obj EXCEPT !.parts = Append(@, NewModelPart(s))]} ELSE {})
            \cup
            (IF Len(obj.ints.ints) < MaxList THEN {[obj EXCEPT !.ints.ints = Append(@, NewMamodelInts(s))]} ELSE {})
      [] kind = "MamodelIntsInts" ->
            (IF Len(obj.ints) < MaxList THEN {[obj EXCEPT !.ints = Append(@, NewMamodelInts(s))]} ELSE {})
      [] kind = "KeyFrames" ->
            (IF Len(obj.keyframes) < MaxList THEN {[obj EXCEPT !.keyframes = Append(@, NewKeyFrame(s))]} ELSE {})
      [] kind = "UnitAnim" ->
            (IF Len(obj.parts) < MaxList THEN {[obj EXCEPT !.parts = Append(@, NewKeyFrames(s))]} ELSE {})
            \cup
            {[obj EXCEPT !.parts[j].keyframes = Append(@, NewKeyFrame(s))] :
                j \in {i \in DOMAIN obj.parts : Len(obj.parts[i].keyframes) < MaxList}}

\* list.pop() on one non-empty list of the object.
Front(list) == SubSeq(list, 1, Len(list) - 1)

Popped(kind, obj) ==
    CASE kind = "Texture" ->
            (IF obj.rects # <<>> THEN {[obj EXCEPT !.rects = Front(@)]} ELSE {})
      [] kind = "Mamodel" ->
            (IF obj.parts # <<>> THEN {[obj EXCEPT !.parts = Front(@)]} ELSE {})
            \cup
            (IF obj.ints.ints # <<>> THEN {[obj EXCEPT !.ints.ints = Front(@)]} ELSE {})
      [] kind = "MamodelIntsInts" ->
            (IF obj.ints # <<>> THEN {[obj EXCEPT !.ints = Front(@)]} ELSE {})
      [] kind = "KeyFrames" ->
            (IF obj.keyframes # <<>> THEN {[obj EXCEPT !.keyframes = Front(@)]} ELSE {})
      [] kind = "UnitAnim" ->
            (IF obj.parts # <<>> THEN {[obj EXCEPT !.parts = Front(@)]} ELSE {})
            \cup
            {[obj EXCEPT !.parts[j].keyframes = Front(@)] :
                j \in {i \in DOMAIN obj.parts : obj.parts[i].keyframes # <<>>}}

\* The cursors a caller passes: KeyFrames and MamodelIntsInts are bound at any
\* row, the other kinds at the top of their table.
Cursors(kind) == IF kind \in {"KeyFrames", "MamodelIntsInts"} THEN 0 .. MaxCursor ELSE {0}

\* x.apply_csv(...) for an object of the kind.
ApplyCsv(kind, obj, index) ==
    CASE kind = "Texture" -> TextureApplyCsv(obj)
      [] kind = "Mamodel" -> MamodelApplyCsv(obj)
      [] kind = "MamodelIntsInts" -> MamodelIntsIntsApplyCsv(obj, index)
      [] kind = "KeyFrames" -> KeyFramesApplyCsv(obj, index)
      [] kind = "UnitAnim" -> UnitAnimApplyCsv(obj)

\* X(...).read_csv(...) for a newly constructed object of the kind.
ReadCsv(kind, obj, index, csv) ==
    CASE kind = "Texture" -> TextureReadCsv(Constructed(kind, obj), csv)
      [] kind = "Mamodel" -> MamodelReadCsv(Constructed(kind, obj), csv)
      [] kind = "MamodelIntsInts" ->
            MamodelIntsIntsReadCsv(Constructed(kind, obj), index, csv)
      [] kind = "KeyFrames" -> KeyFramesReadCsv(index, csv)
      [] kind = "UnitAnim" -> UnitAnimReadCsv(Constructed(kind, obj), csv)

\* A caller grows one list of the object; the count attribute is left as it was.
AnimAppend ==
    /\ anim.kind \in AnimKinds
    /\ \E s \in 0 .. MaxSeed : \E obj \in Appended(anim.kind, anim.obj, s) :
        anim' = Editing(anim.kind, obj)
    /\ UNCHANGED <<shopVars, charaVars, zip, auxVars>>

\* A caller shrinks one list of the object; the count attribute is left as it was.
AnimPop ==
    /\ anim.kind \in AnimKinds
    /\ \E obj \in Popped(anim.kind, anim.obj) :
        anim' = Editing(anim.kind, obj)
    /\ UNCHANGED <<shopVars, charaVars, zip, auxVars>>

\* obj.apply_csv(csv), csv a fresh table (tbcml.CSV()).
AnimApplyCsv ==
    /\ anim.kind \in AnimKinds
    /\ \E index \in Cursors(anim.kind) :
        LET ap == ApplyCsv(anim.kind, anim.obj, index)
        IN anim' = AnimState(anim.kind, ap.obj, anim.obj,
                             TableSetAll(EmptyCSV.lines, ap.sets), index, ap.ret,
                             Rd(NoAttrs, "none"), "apply_csv")
    /\ UNCHANGED <<shopVars, charaVars, zip, auxVars>>

\* A new object reads the table just written, at the cursor it was written at.
AnimReadCsv ==
    /\ anim.kind \in AnimKinds
    /\ anim.op = "apply_csv"
    /\ LET rd == ReadCsv(anim.kind, anim.obj, anim.index, CSV(anim.lines, 0))
       IN anim' = [anim EXCEPT
                      !.back = Rd(rd.obj, rd.err),
                      !.ret = IF anim.kind \in {"KeyFrames", "UnitAnim"} THEN rd.ret ELSE @,
                      !.op = "read_csv"]
    /\ UNCHANGED <<shopVars, charaVars, zip, auxVars>>

NextAnim == AnimAppend \/ AnimPop \/ AnimApplyCsv \/ AnimReadCsv

SpecAnim == InitAnimOnly /\ [][NextAnim]_vars

\* The whole program: every operation on the current shop and the current MainChara.
Next == LoadMod \/ DoImport \/ DoSet \/ DoAdd \/ DoInsert \/ DoRemove \/ DoShift
            \/ LoadChara \/ DoImportChara
            \/ AnimAppend \/ AnimPop \/ AnimApplyCsv \/ AnimReadCsv
            \/ LoadAudio \/ DoFromGameData \/ DoToGameData
            \/ DoImportAudio \/ DoExtract \/ DiskChanges
            \/ DoCompare \/ DoToString \/ DoFromString
            \/ DoFlipX \/ DoFlipY
            \/ TimerTimeout \/ PermTimerTimeout \/ DoAddFunc \/ DoAddPermFunc
            \/ DoRemoveFunc \/ DoRemovePermFunc \/ DoStart \/ DoStop
            \/ DoRename

Spec == Init /\ [][Next]_vars

\* ---------------------------------------------------------------- views
LastCall == calls[Len(calls)]

PrevCall == calls[Len(calls) - 1]

\* The last call on the current shop was import_item_shop.
Imported == calls # <<>> /\ LastCall.op = "import_item_shop"

\* The last two calls were import_item_shop of two different mod shops, A then B.
ImportedTwo ==
    /\ Len(calls) >= 2
    /\ LastCall.op = "import_item_shop"
    /\ PrevCall.op = "import_item_shop"
    /\ PrevCall.oid # LastCall.oid

\* The last two calls were import_item_shop of the same mod shop.
ImportedTwice ==
    /\ Len(calls) >= 2
    /\ LastCall.op = "import_item_shop"
    /\ PrevCall.op = "import_item_shop"
    /\ PrevCall.oid = LastCall.oid

\* The shop decoded from the game data, as the merge sees it.
Pristine == FromGameData(gd)

PristineKeys == DictKeys(Pristine)

PristineRec(id) == DictAt(Pristine, id)

PristineMap == [k \in PristineKeys |-> PristineRec(k)]

\* The current shop after the last call, and the incoming shop as it was passed.
Current == Snapshot(items, heap)

Incoming == LastCall.other

\* The attributes in which a snapshot's record differs from the pristine record.
Changed(snap, id) == {a \in NonIdFields : SnapRec(snap, id)[a] # PristineRec(id)[a]}

\* The warnings recorded by the operations of ItemShop: none of them logs,
\* warns or keeps a list of warnings.
RecordedWarnings == <<>>

\* ---------------------------------------------------------------- claims
\* C1: import_item_shop is a field-level three-way merge: for every id held by
\* current, incoming and pristine and every non-identity attribute, afterwards
\* current has incoming's value where incoming differs from pristine, and the
\* value it had before otherwise.
C1_FieldLevelMerge ==
    Imported =>
        \A id \in SnapKeys(pre) \cap SnapKeys(Incoming) \cap PristineKeys :
            /\ id \in SnapKeys(Current)
            /\ \A a \in NonIdFields :
                SnapRec(Current, id)[a] =
                    IF SnapRec(Incoming, id)[a] # PristineRec(id)[a]
                    THEN SnapRec(Incoming, id)[a]
                    ELSE SnapRec(pre, id)[a]

\* C2: merge identity: importing a shop that holds exactly the pristine items
\* completes and leaves self.items unchanged.
C2_MergeIdentity ==
    (Imported /\ SnapMap(Incoming) = PristineMap) =>
        /\ err = "none"
        /\ SnapMap(Current) = SnapMap(pre)

\* C4: disjoint-field composition: after importing A and then B, which change
\* disjoint attributes of one id relative to pristine, the record holds A's
\* changed attributes and B's changed attributes.
C4_DisjointComposition ==
    ImportedTwo =>
        \A id \in SnapKeys(PrevCall.other) \cap SnapKeys(Incoming)
                    \cap PristineKeys \cap SnapKeys(pre) :
            (/\ Changed(PrevCall.other, id) # {}
             /\ Changed(Incoming, id) # {}
             /\ Changed(PrevCall.other, id) \cap Changed(Incoming, id) = {}) =>
                /\ id \in SnapKeys(Current)
                /\ \A a \in Changed(PrevCall.other, id) :
                    SnapRec(Current, id)[a] = SnapRec(PrevCall.other, id)[a]
                /\ \A a \in Changed(Incoming, id) :
                    SnapRec(Current, id)[a] = SnapRec(Incoming, id)[a]

\* C5: last applicant wins per field: after importing A and then B, which both
\* change one attribute of one id relative to pristine to different values,
\* current holds B's value of that attribute.
C5_LastApplicantWins ==
    ImportedTwo =>
        \A id \in SnapKeys(PrevCall.other) \cap SnapKeys(Incoming)
                    \cap PristineKeys \cap SnapKeys(pre) :
            \A a \in Changed(PrevCall.other, id) \cap Changed(Incoming, id) :
                SnapRec(PrevCall.other, id)[a] # SnapRec(Incoming, id)[a] =>
                    /\ id \in SnapKeys(Current)
                    /\ SnapRec(Current, id)[a] = SnapRec(Incoming, id)[a]

\* C6: import_item_shop leaves current untouched for every id absent from
\* other.items: the id is present after iff it was present before, and every
\* field of its record is unchanged.
C6_AbsentUntouched ==
    Imported =>
        \A id \in (SnapKeys(pre) \cup SnapKeys(Current)) \ SnapKeys(Incoming) :
            /\ id \in SnapKeys(pre)
            /\ id \in SnapKeys(Current)
            /\ SnapRec(Current, id) = SnapRec(pre, id)

\* C7: for every id present in other.items and absent from the pristine shop,
\* after import_item_shop self.get_item(id) equals other's record in every
\* field, with shop_id equal to id.
C7_NewRecordOverwrites ==
    Imported =>
        \A id \in SnapKeys(Incoming) \ PristineKeys :
            /\ id \in SnapKeys(Current)
            /\ SnapRec(Current, id) = [SnapRec(Incoming, id) EXCEPT !.shop_id = id]

C3_CharaMergeIdentity ==
    (charaCalls # <<>> /\ charaCalls[Len(charaCalls)].other = chara.gd) =>
        chara.model = charaCalls[Len(charaCalls)].pre

\* Every record's shop_id is the key it is stored under.
WellFormed(snap) == \A i \in DOMAIN snap : snap[i].rec.shop_id = snap[i].k

\* The ids are 0..n-1.
Contiguous(snap) == SnapKeys(snap) = 0 .. Len(snap) - 1

\* The last call was remove_item(k) on a shop whose ids (keys and shop_id
\* fields) are 0..n-1, with k one of them.
RemovedFromContiguous ==
    /\ calls # <<>>
    /\ LastCall.op = "remove_item"
    /\ WellFormed(pre)
    /\ Contiguous(pre)
    /\ LastCall.a \in SnapKeys(pre)

\* C9: remove_item(k) on a shop whose ids are 0..n-1 removes the record at k,
\* moves every record formerly at i > k to i-1 (key and shop_id) and leaves
\* every record at i < k at its id with all fields unchanged.
C9_RemoveShiftsDown ==
    RemovedFromContiguous =>
        /\ err = "none"
        /\ DictKeys(items) = 0 .. Len(pre) - 2
        /\ \A i \in DOMAIN pre :
            /\ pre[i].k < LastCall.a =>
                /\ GetItem(items, pre[i].k) = pre[i].v
                /\ heap[pre[i].v] = pre[i].rec
            /\ pre[i].k > LastCall.a =>
                /\ GetItem(items, pre[i].k - 1) = pre[i].v
                /\ heap[pre[i].v] = [pre[i].rec EXCEPT !.shop_id = pre[i].k - 1]
            /\ pre[i].k = LastCall.a =>
                \A j \in DOMAIN items : items[j].v # pre[i].v

\* C9 witness: a record was removed from between two others.
C9_Witness ==
    /\ RemovedFromContiguous
    /\ err = "none"
    /\ LastCall.a > 0
    /\ LastCall.a < Len(pre) - 1

\* The last call was insert_item(k, item) of a new Item into a shop whose
\* records are stored under their shop_id.
InsertedNew ==
    /\ calls # <<>>
    /\ LastCall.op = "insert_item"
    /\ WellFormed(pre)

\* C10: insert_item(k, item) moves every record formerly at i >= k to i+1 (key
\* and shop_id), places item at k with shop_id k, and leaves every record at
\* i < k unchanged; the shop holds exactly one more record than before.
C10_InsertShiftsUp ==
    InsertedNew =>
        /\ \A i \in DOMAIN pre :
            /\ pre[i].k < LastCall.a =>
                /\ GetItem(items, pre[i].k) = pre[i].v
                /\ heap[pre[i].v] = pre[i].rec
            /\ pre[i].k >= LastCall.a =>
                /\ GetItem(items, pre[i].k + 1) = pre[i].v
                /\ heap[pre[i].v] = [pre[i].rec EXCEPT !.shop_id = pre[i].k + 1]
        /\ GetItem(items, LastCall.a) = Len(heap)
        /\ heap[Len(heap)] = [NewItem(0) EXCEPT !.shop_id = LastCall.a]
        /\ Len(items) = Len(pre) + 1
        /\ Cardinality(DictKeys(items)) = Len(pre) + 1

\* C10 witness: an item was inserted between two records.
C10_Witness ==
    /\ InsertedNew
    /\ \E i, j \in DOMAIN pre : pre[i].k < LastCall.a /\ pre[j].k >= LastCall.a

\* No call made so far on the current shop raised.
NoneRaised == \A i \in DOMAIN calls : calls[i].err = "none"

\* C11: starting from a shop whose ids are 0..n-1, after any sequence of
\* insert_item(k, item) and remove_item(k) calls that return without raising,
\* the id set of self.items is 0..m-1, m the number of records held.
C11_ContiguousIds ==
    NoneRaised => DictKeys(items) = 0 .. Len(items) - 1

\* C12: import_item_shop leaves every record of other unchanged, and no later
\* call on self changes a field (shop_id included) of a record held in
\* other.items: other's records are as they were when other was passed in.
C12_NoSharedRecords ==
    \A i \in DOMAIN calls :
        (calls[i].op = "import_item_shop" /\ calls[i].oid = otherId) =>
            Snapshot(other, heap) = calls[i].other

\* ---------------------------------------------------------------- anim claims
\* The integer held by the cell at (row, col) of the table written.
HasInt(row, col) ==
    TableHas(anim.lines, row, col) /\ IsIntText(TableGet(anim.lines, row, col))

CellInt(row, col) == TextToInt(TableGet(anim.lines, row, col))

\* The row part j of a UnitAnim starts at: 3, plus 2 + (number of keyframes)
\* for every part before it.
RECURSIVE PartRow(_, _)
PartRow(parts, j) ==
    IF j = 1 THEN 3 ELSE PartRow(parts, j - 1) + 2 + Len(parts[j - 1].keyframes)

\* The count cell at (row, 0) holds n.
CountIs(row, n) == HasInt(row, 0) /\ CellInt(row, 0) = n

\* C13: after apply_csv of a Texture, Mamodel, MamodelIntsInts, KeyFrames or
\* UnitAnim, every count cell written to the table equals the current length
\* of its list, whatever value the total_* attribute held before the call.
C13_CountsRederived ==
    anim.op = "apply_csv" =>
        CASE anim.kind = "Texture" -> CountIs(3, Len(anim.obj.rects))
          [] anim.kind = "Mamodel" ->
                /\ CountIs(2, Len(anim.obj.parts))
                /\ CountIs(Len(anim.obj.parts) + 4, Len(anim.obj.ints.ints))
          [] anim.kind = "MamodelIntsInts" -> CountIs(anim.index, Len(anim.obj.ints))
          [] anim.kind = "KeyFrames" -> CountIs(anim.index + 1, Len(anim.obj.keyframes))
          [] anim.kind = "UnitAnim" ->
                /\ CountIs(2, Len(anim.obj.parts))
                /\ \A j \in DOMAIN anim.obj.parts :
                       CountIs(PartRow(anim.obj.parts, j) + 1,
                               Len(anim.obj.parts[j].keyframes))

\* C13 witness: apply_csv wrote a UnitAnim whose total_parts was stale after
\* the list had shrunk, and which holds a part whose total_keyframes was stale.
C13_Witness ==
    /\ anim.op = "apply_csv"
    /\ anim.kind = "UnitAnim"
    /\ anim.pre.metadata.total_parts > Len(anim.pre.parts)
    /\ \E j \in DOMAIN anim.pre.parts :
           OrZero(anim.pre.parts[j], "total_keyframes") # Len(anim.pre.parts[j].keyframes)

\* The last step was read_csv, by a newly constructed object, of the table
\* that apply_csv of anim.obj wrote into a fresh table.
RoundTrip(kind) == anim.kind = kind /\ anim.op = "read_csv"

\* An object without one attribute.
Drop(obj, name) == [n \in DOMAIN obj \ {name} |-> obj[n]]

\* A UnitAnim and a Mamodel without their count attributes.
UnitAnimFields(u) ==
    [u EXCEPT !.metadata = Drop(u.metadata, "total_parts"),
              !.parts = [j \in DOMAIN u.parts |-> Drop(u.parts[j], "total_keyframes")]]

MamodelFields(m) ==
    [m EXCEPT !.metadata = Drop(m.metadata, "total_parts"),
              !.ints = Drop(m.ints, "total_ints")]

\* C14: for any UnitAnim and any Mamodel, apply_csv into a fresh empty table
\* followed by read_csv of that table into a fresh object yields an object
\* equal field for field to the original (every list of the same length and
\* order), with every count field equal to the length of its list.
C14_SchemaRoundTrip ==
    /\ RoundTrip("UnitAnim") =>
          /\ anim.back.err = "none"
          /\ UnitAnimFields(anim.back.obj) = UnitAnimFields(anim.pre)
          /\ anim.back.obj.metadata.total_parts = Len(anim.back.obj.parts)
          /\ \A j \in DOMAIN anim.back.obj.parts :
                 anim.back.obj.parts[j].total_keyframes = Len(anim.back.obj.parts[j].keyframes)
    /\ RoundTrip("Mamodel") =>
          /\ anim.back.err = "none"
          /\ MamodelFields(anim.back.obj) = MamodelFields(anim.pre)
          /\ anim.back.obj.metadata.total_parts = Len(anim.back.obj.parts)
          /\ anim.back.obj.ints.total_ints = Len(anim.back.obj.ints.ints)

\* C14 witness: a UnitAnim of two parts holding different numbers of
\* keyframes, one of them two, was written and read back.
C14_Witness ==
    /\ RoundTrip("UnitAnim")
    /\ Len(anim.obj.parts) = 2
    /\ Len(anim.obj.parts[1].keyframes) # Len(anim.obj.parts[2].keyframes)
    /\ \E j \in DOMAIN anim.obj.parts : Len(anim.obj.parts[j].keyframes) = 2

\* Row number row of the table written holds exactly the cells texts.
RowIs(row, texts) == row < Len(anim.lines) /\ anim.lines[row + 1] = texts

\* The cells of the header row of a KeyFrames part and of a KeyFrame row.
HeaderRow(part) ==
    <<IntToText(part.model_id), IntToText(part.modification_type), IntToText(part.loop),
      IntToText(part.min_value), IntToText(part.max_value), part.name>>

KeyFrameRow(keyframe) ==
    <<IntToText(keyframe.frame), IntToText(keyframe.change_in_value),
      IntToText(keyframe.ease_mode), IntToText(keyframe.ease_power)>>

\* The part occupies the rows c .. c + 1 + n: header, count, n keyframes.
PartAt(part, c) ==
    /\ RowIs(c, HeaderRow(part))
    /\ RowIs(c + 1, <<IntToText(Len(part.keyframes))>>)
    /\ \A i \in DOMAIN part.keyframes : RowIs(c + 1 + i, KeyFrameRow(part.keyframes[i]))

\* C15: KeyFrames.apply_csv(c, csv) and KeyFrames.read_csv(c, csv) return
\* c + 2 + (number of keyframes); UnitAnim places its first part at row 3 and
\* each following part at the cursor the previous one returned, so part j
\* occupies exactly the rows [c_j, c_j + 2 + n_j): the ranges are disjoint,
\* contiguous, and leave the metadata rows 0..2 alone.
C15_CursorChaining ==
    /\ (anim.kind = "KeyFrames" /\ anim.op = "apply_csv") =>
          /\ anim.ret = anim.index + 2 + Len(anim.obj.keyframes)
          /\ PartAt(anim.obj, anim.index)
          /\ Len(anim.lines) = anim.ret
    /\ (anim.kind = "KeyFrames" /\ anim.op = "read_csv") =>
          /\ anim.back.err = "none"
          /\ anim.ret = anim.index + 2 + Len(anim.back.obj.keyframes)
          /\ anim.ret = anim.index + 2 + Len(anim.obj.keyframes)
    /\ (anim.kind = "UnitAnim" /\ anim.op \in {"apply_csv", "read_csv"}) =>
          /\ RowIs(0, <<anim.obj.metadata.head_name>>)
          /\ RowIs(1, <<anim.obj.metadata.version_code>>)
          /\ RowIs(2, <<IntToText(Len(anim.obj.parts))>>)
          /\ \A j \in DOMAIN anim.obj.parts :
                 PartAt(anim.obj.parts[j], PartRow(anim.obj.parts, j))
          /\ anim.ret = PartRow(anim.obj.parts, Len(anim.obj.parts) + 1)
          /\ Len(anim.lines) = anim.ret

\* C15 witness: a UnitAnim of two parts, the first holding keyframes, was written.
C15_Witness ==
    /\ anim.kind = "UnitAnim"
    /\ anim.op = "apply_csv"
    /\ Len(anim.obj.parts) = 2
    /\ anim.obj.parts[1].keyframes # <<>>

\* C16: a repeated block with zero repetitions still reserves its count row:
\* KeyFrames.apply_csv(c, csv) with no keyframes writes the header row at c
\* and the count 0 at row c + 1 and returns c + 2; UnitAnim.apply_csv with no
\* parts writes total_parts 0 at row 2; MamodelIntsInts.apply_csv with no ints
\* writes 0 at its index row; reading these back yields empty lists.
C16_ZeroRepetitions ==
    /\ (anim.kind = "KeyFrames" /\ anim.obj.keyframes = <<>>) =>
          /\ anim.op = "apply_csv" =>
                /\ RowIs(anim.index, HeaderRow(anim.obj))
                /\ CountIs(anim.index + 1, 0)
                /\ anim.ret = anim.index + 2
          /\ anim.op = "read_csv" =>
                anim.back.err = "none" /\ anim.back.obj.keyframes = <<>>
    /\ (anim.kind = "UnitAnim" /\ anim.obj.parts = <<>>) =>
          /\ anim.op = "apply_csv" => CountIs(2, 0)
          /\ anim.op = "read_csv" =>
                anim.back.err = "none" /\ anim.back.obj.parts = <<>>
    /\ (anim.kind = "MamodelIntsInts" /\ anim.obj.ints = <<>>) =>
          /\ anim.op = "apply_csv" => CountIs(anim.index, 0)
          /\ anim.op = "read_csv" =>
                anim.back.err = "none" /\ anim.back.obj.ints = <<>>

\* C16 witness: a KeyFrames whose keyframes had all been removed, and whose
\* total_keyframes still counted them, was written at a row below the top
\* and read back.
C16_Witness ==
    /\ anim.kind = "KeyFrames"
    /\ anim.op = "read_csv"
    /\ anim.obj.keyframes = <<>>
    /\ anim.pre.total_keyframes > 0
    /\ anim.index > 0

\* C17: loading a mod's snapshot for an asset type the mod archive does not
\* contain returns none (no snapshot), not an empty snapshot: ItemShop.from_zip,
\* MainChara.from_zip and Audio.from_zip on a zip lacking their json file.
C17_AbsentReturnsNone ==
    (zip.asset \in {"ItemShop", "MainChara", "Audio"} /\ ~zip.has_json) => zip.ret.none

\* C18: unsupported attribute drift is not a hard failure: when the merge's
\* attribute list names an attribute the Item type does not have (imgcut_id,
\* cut), import_item_shop ignores that attribute, records a warning, still
\* merges all other attributes of the list, and returns without raising.
C18_AttributeDriftTolerated ==
    (Imported /\ SnapKeys(pre) \cap SnapKeys(Incoming) \cap PristineKeys # {}) =>
        /\ LastCall.err = "none"
        /\ RecordedWarnings # <<>>
        /\ \A id \in SnapKeys(pre) \cap SnapKeys(Incoming) \cap PristineKeys :
              /\ id \in SnapKeys(Current)
              /\ \A i \in DOMAIN MergeAttrs :
                    (/\ MergeAttrs[i] \in ItemFields
                     /\ SnapRec(Incoming, id)[MergeAttrs[i]] # PristineRec(id)[MergeAttrs[i]])
                    => SnapRec(Current, id)[MergeAttrs[i]]
                         = SnapRec(Incoming, id)[MergeAttrs[i]]

\* The ids of the decoded table that more than one data row carries.
DuplicateIds == {gd[i].shop_id : i \in {j \in DOMAIN gd :
                                       \E k \in DOMAIN gd : k # j /\ gd[k].shop_id = gd[j].shop_id}}

\* The last data row of the decoded table with the given id.
LastRow(id) == gd[Max({i \in DOMAIN gd : gd[i].shop_id = id})]

\* The shop just built from the table maps every duplicated id to its last row.
LastRowWins ==
    \A id \in DuplicateIds :
        id \in SnapKeys(Current) /\ SnapRec(Current, id) = LastRow(id)

\* C19: identity conflict on ingest: when the decoded table has two or more
\* data rows with the same id, from_game_data returns a snapshot in which that
\* id maps to the record built from the last such row, and a warning is
\* recorded.
C19_DuplicateIdLastWins ==
    (calls # <<>> /\ LastCall.op = "from_game_data" /\ DuplicateIds # {}) =>
        /\ LastCall.err = "none"
        /\ LastRowWins
        /\ RecordedWarnings # <<>>

\* C20: import_item_shop is total over the key union: whichever of current,
\* pristine and incoming hold an id (in particular incoming and pristine but
\* not current), the call processes the id and returns without raising.
C20_TotalOverKeyUnion ==
    Imported =>
        /\ LastCall.err = "none"
        /\ \A id \in SnapKeys(Incoming) : id \in SnapKeys(Current)

\* C21: re-encoding round trip of the item shop: from_game_data executed after
\* S.to_game_data(game_data) yields an item mapping equal to S.items (same ids,
\* same field values); an id S does not hold, such as one removed with
\* remove_item, is not in the decoded result.
C21_ReencodeRoundTrip ==
    (/\ Len(calls) >= 2
     /\ LastCall.op = "from_game_data"
     /\ PrevCall.op = "to_game_data")
    => /\ PrevCall.err = "none"
       /\ SnapKeys(Current) = SnapKeys(pre)
       /\ \A id \in SnapKeys(pre) : SnapRec(Current, id) = SnapRec(pre, id)

\* C22: shift_items(start_index, shift) never loses a record: the number of
\* records after the call equals the number before, every record with
\* shop_id >= start_index has its id changed by exactly shift and every other
\* record keeps its id.
C22_ShiftKeepsRecords ==
    (calls # <<>> /\ LastCall.op = "shift_items") =>
        /\ Len(items) = Len(pre)
        /\ \A i \in DOMAIN pre :
              LET id == IF pre[i].rec.shop_id >= LastCall.a
                        THEN pre[i].rec.shop_id + LastCall.b
                        ELSE pre[i].rec.shop_id
              IN /\ heap[pre[i].v].shop_id = id
                 /\ DictHas(items, id)
                 /\ DictAt(items, id) = pre[i].v

\* C23: key/identity agreement: after any sequence of set_item, add_item,
\* insert_item, remove_item, shift_items and import_item_shop calls on a shop
\* built by from_game_data, every key k of self.items has
\* self.items[k].shop_id = k.
C23_KeyIdentityAgreement ==
    \A i \in DOMAIN items : heap[items[i].v].shop_id = items[i].k

\* The file a name maps to after the imports made so far: the one of the last
\* imported Audio that supplies the name, else the one self started with.
RECURSIVE Determined(_, _)
Determined(name, n) ==
    IF n = 0 THEN DictAt(audio.imports[1].pre, name)
    ELSE IF DictHas(audio.imports[n].other, name)
         THEN DictAt(audio.imports[n].other, name)
         ELSE Determined(name, n - 1)

\* C24: import_audio(other) merges by file name with the incoming mod winning:
\* afterwards the key set of self.audio_files is the union of both key sets,
\* every name in other maps to other's AudioFile, every name only in self maps
\* to the AudioFile it had, and other is unchanged; over mods in sequence the
\* last mod that supplies a file name determines that file.
C24_ImportAudioIncomingWins ==
    audio.imports # <<>> =>
        LET last == audio.imports[Len(audio.imports)] IN
        /\ DictKeys(audio.audio_files) = DictKeys(last.pre) \cup DictKeys(last.other)
        /\ \A name \in DictKeys(last.other) :
              DictAt(audio.audio_files, name) = DictAt(last.other, name)
        /\ \A name \in DictKeys(last.pre) \ DictKeys(last.other) :
              DictAt(audio.audio_files, name) = DictAt(last.pre, name)
        /\ last.after = last.other
        /\ \A name \in DictKeys(audio.audio_files) :
              DictAt(audio.audio_files, name) = Determined(name, Len(audio.imports))

\* C24 witness: two mods were imported in sequence, both supply a file name
\* self already held, with different data, and the second does not supply a
\* name the first one added.
C24_Witness ==
    /\ Len(audio.imports) = 2
    /\ \E name \in DictKeys(audio.imports[1].pre) :
          /\ DictHas(audio.imports[1].other, name)
          /\ DictHas(audio.imports[2].other, name)
          /\ DictAt(audio.imports[1].other, name) # DictAt(audio.imports[2].other, name)
    /\ \E name \in DictKeys(audio.imports[1].other) :
          /\ ~DictHas(audio.imports[1].pre, name)
          /\ ~DictHas(audio.imports[2].other, name)

\* Every file the TSV names (blank, BOM-prefixed and all-digit names aside) was
\* on disk before the call with the MD5 the TSV lists.
AllFilesMatch ==
    \A i \in DOMAIN server.tsv :
        ~Ignored(server.tsv[i].name) =>
            /\ server.tsv[i].name \in DOMAIN server.before
            /\ server.before[server.tsv[i].name] = server.tsv[i].md5

\* C25: extract(index, force=False) skips the download and returns False only
\* if every file named in the version's TSV already exists under the server
\* path with the MD5 listed; in every other case, and always when force is
\* True, it downloads and extracts the archive and returns True.
C25_ExtractSkipsOnlyWhenComplete ==
    (server.on /\ server.op = "extract" /\ server.ret # "ValueError") =>
        /\ server.ret = "False" => (~server.force /\ AllFilesMatch /\ ~server.downloaded)
        /\ (server.force \/ ~AllFilesMatch) => (server.ret = "True" /\ server.downloaded)

\* The number an operand stands for: a version string by from_string.
OperandValue(b) == IF b.type = "str" THEN VersionFromString(b.text) ELSE b.n

\* C26: GameVersion comparisons are consistent with the integer order of
\* game_version: for b a GameVersion, an int or a version string exactly one
\* of a < b, a == b, a > b is True, a <= b iff (a < b or a == b) and a >= b iff
\* (a > b or a == b); for an operand of any other type a > b and a >= b are
\* not True.
C26_ComparisonsConsistent ==
    (version.on /\ version.op = "compare") =>
        LET out == version.out
            b == version.b
        IN /\ b.type \in {"GameVersion", "int", "str"} =>
                /\ out.lt = (version.game_version < OperandValue(b))
                /\ out.eq = (version.game_version = OperandValue(b))
                /\ out.gt = (version.game_version > OperandValue(b))
                /\ out.le = (out.lt \/ out.eq)
                /\ out.ge = (out.gt \/ out.eq)
           /\ b.type = "other" => (~out.gt /\ ~out.ge)

\* The text without the leading zeros of its parts.
Unpadded(text) ==
    LET parts == Split(text, <<>>)
    IN Join([i \in DOMAIN parts |-> NatToText(DigitsToNat(parts[i], 0))])

\* C27: GameVersion string round trip: for every non-negative version v, of
\* seven or more digits too, from_string(GameVersion(v).to_string()) has
\* game_version v; and for every string a.b.c with parts 0..99,
\* from_string(text).to_string() is that string without leading zeros.
C27_StringRoundTrip ==
    /\ (version.on /\ version.op = "to_string") =>
            version.out.game_version = version.game_version
    /\ (version.on /\ version.op = "from_string") =>
            version.out.text = Unpadded(version.text)

\* after is before with the named attributes negated where they are not None,
\* and every other attribute as it was.
NegatedIn(before, after, names) ==
    /\ DOMAIN after = DOMAIN before
    /\ \A n \in DOMAIN before :
          after[n] = IF n \in names THEN 0 - before[n] ELSE before[n]

\* One flip took the Model from before to the Model held now.
OneFlip(op, before) ==
    /\ Len(rig.parts) = Len(before.parts)
    /\ \A i \in DOMAIN before.parts :
          NegatedIn(before.parts[i], rig.parts[i],
                    {"rotation"} \cup (IF i = 1
                                        THEN (IF op = "flip_x" THEN {"scale_x"} ELSE {"scale_y"})
                                        ELSE {}))
    /\ Len(rig.anims) = Len(before.anims)
    /\ \A a \in DOMAIN before.anims :
          /\ NegatedIn([before.anims[a] EXCEPT !.parts = <<>>],
                       [rig.anims[a] EXCEPT !.parts = <<>>], {})
          /\ Len(rig.anims[a].parts) = Len(before.anims[a].parts)
          /\ \A p \in DOMAIN before.anims[a].parts :
                LET old == before.anims[a].parts[p]
                    new == rig.anims[a].parts[p]
                    angle == "modification_type" \in DOMAIN old /\ old.modification_type = ANGLE
                IN /\ NegatedIn([old EXCEPT !.keyframes = <<>>],
                                [new EXCEPT !.keyframes = <<>>], {})
                   /\ Len(new.keyframes) = Len(old.keyframes)
                   /\ \A k \in DOMAIN old.keyframes :
                         NegatedIn(old.keyframes[k], new.keyframes[k],
                                   IF angle THEN {"change_in_value"} ELSE {})

\* C28: Model.flip_x and Model.flip_y are involutions: flip_x twice (or flip_y
\* twice) restores every ModelPart's scale_x, scale_y and rotation and every
\* KeyFrame's change_in_value; a single flip negates the scale only of the
\* part at index 0, the rotation of every part and change_in_value only in
\* the KeyFrames blocks whose modification_type is ANGLE, and changes no other
\* field.
C28_FlipInvolution ==
    (rig.on /\ rig.ops # <<>>) =>
        /\ OneFlip(rig.ops[Len(rig.ops)], rig.hist[Len(rig.hist)])
        /\ (Len(rig.ops) >= 2 /\ rig.ops[Len(rig.ops)] = rig.ops[Len(rig.ops) - 1]) =>
              /\ rig.parts = rig.hist[Len(rig.hist) - 1].parts
              /\ rig.anims = rig.hist[Len(rig.hist) - 1].anims

\* C28 witness: flip_x was applied twice to a Model with two parts that have
\* scales and a rotation, an anim whose block is not ANGLE and one whose block
\* is, both with a change_in_value.
C28_Witness ==
    /\ rig.on
    /\ rig.ops = <<"flip_x", "flip_x">>
    /\ Len(rig.parts) = 2
    /\ \A i \in 1 .. 2 : {"scale_x", "rotation"} \subseteq DOMAIN rig.parts[i]
    /\ Len(rig.anims) = 2
    /\ \A a \in 1 .. 2 :
          /\ Len(rig.anims[a].parts) = 1
          /\ rig.anims[a].parts[1].keyframes # <<>>
          /\ "change_in_value" \in DOMAIN rig.anims[a].parts[1].keyframes[1]
    /\ "modification_type" \in DOMAIN rig.anims[1].parts[1]
    /\ rig.anims[1].parts[1].modification_type # ANGLE

\* What the last operation on the FrameClock did.
ClockEffects ==
    clock.on =>
        /\ clock.op = "tick" =>
              /\ ~clock.halted
              /\ clock.self.frame = clock.before.frame + 1
              /\ clock.calls = clock.before.funcs
              /\ clock.self.perm_frame = clock.before.perm_frame
        /\ clock.op = "tick_perm" =>
              /\ clock.self.perm_frame = clock.before.perm_frame + 1
              /\ clock.calls = clock.before.perm_funcs
              /\ clock.self.frame = clock.before.frame
        /\ clock.op = "start" =>
              /\ clock.self.frame = clock.before.frame
              /\ clock.self.timer.active
        /\ clock.op \notin {"tick", "tick_perm"} =>
              /\ clock.calls = <<>>
              /\ clock.self.frame = clock.before.frame
              /\ clock.self.perm_frame = clock.before.perm_frame

\* C29: between stop() and the next start() timer events never change frame
\* and never invoke the functions added with add_func, while perm_frame
\* keeps incrementing and the functions added with add_perm_func are invoked
\* on every permanent tick; start() resumes ticking from the current frame
\* without resetting it, and each tick increments frame by exactly 1 and
\* calls every registered function once in registration order.
C29_StartStop ==
    /\ []ClockEffects
    /\ \A n \in 0 .. MaxTicks - 1 :
          (clock.on /\ clock.halted /\ clock.self.perm_frame = n)
              ~> (clock.on /\ clock.self.perm_frame = n + 1)

\* C29 witness: a permanent tick called both permanent functions while the
\* clock was stopped after a tick, with two functions registered by add_func.
C29_Witness ==
    /\ clock.on
    /\ clock.halted
    /\ clock.op = "tick_perm"
    /\ clock.self.frame >= 1
    /\ clock.self.perm_frame > clock.self.frame
    /\ Len(clock.self.funcs) = 2
    /\ Len(clock.calls) = 2

\* C30: Path.rename(name, overwrite): a missing source raises
\* FileNotFoundError and changes nothing; a new path equal to the current one
\* is a no-op; a new path that exists with overwrite False raises
\* FileExistsError and leaves source and target unchanged; otherwise the
\* target afterwards exists with the source's content and the source no
\* longer exists.
C30_RenameOutcomes ==
    (fs.on /\ fs.ret # "none") =>
        LET new_path == ChangeName(fs.path, fs.name)
        IN IF ~PathExists(fs.before, fs.path)
           THEN fs.ret = "FileNotFoundError" /\ fs.disk = fs.before
           ELSE IF new_path = fs.path
           THEN fs.ret = "None" /\ fs.disk = fs.before
           ELSE IF PathExists(fs.before, new_path) /\ ~fs.overwrite
           THEN fs.ret = "FileExistsError" /\ fs.disk = fs.before
           ELSE /\ fs.ret = "None"
                /\ NodeAt(fs.disk, new_path) = NodeAt(fs.before, fs.path)
                /\ ~PathExists(fs.disk, fs.path)

====
